---------------------------- MODULE Spec2Model ----------------------------
(***************************************************************************)
(* Identity synchronisation between the auth service (Node.js) and the     *)
(* tasks service (Go) over a RabbitMQ topic exchange.                       *)
(*                                                                         *)
(*   auth:   POST /api/auth/register -> INSERT INTO users -> publishEvent   *)
(*   broker: exchange auth_events -> durable queue (bindings)               *)
(*   tasks:  main -> NewConsumer (dial loop, declarations) -> Start ->      *)
(*           consume loop -> handleMessage -> cacheUser (tasks_users)       *)
(*   tasks:  /api/tasks -> AuthMiddleware -> CreateTask (tasks)             *)
(***************************************************************************)
EXTENDS Integers, Sequences, FiniteSets, TLC

(***************************************************************************)
(* Bounds of the model.                                                    *)
(***************************************************************************)
\* messages accepted into the queue over a run (auth and other producers)
MaxMsgs == 2
\* storage failures injected into the tasks database over a run
MaxDbFail == 1
\* tasks created over a run
MaxTasks == 1
\* restarts of the tasks service
MaxRestarts == 1

(***************************************************************************)
(* Values.                                                                 *)
(***************************************************************************)
\* uuid.Nil: the zero value a UserEvent.UserID keeps when the body has no userId
NilUUID == "00000000"
IdSeq == <<"u1", "u2">>
Ids == {IdSeq[k] : k \in 1..Len(IdSeq)}
Usernames == {"alice", "bob"}
Emails == {"a@x.com", "b@x.com"}

None == [none |-> TRUE]

(***************************************************************************)
(* RABBITMQ_MAX_RETRIES: strings are sequences of one-character strings.   *)
(***************************************************************************)
Digits == {"0", "1", "2", "3", "4", "5", "6", "7", "8", "9"}

DigitVal(c) ==
    CASE c = "0" -> 0 [] c = "1" -> 1 [] c = "2" -> 2 [] c = "3" -> 3
      [] c = "4" -> 4 [] c = "5" -> 5 [] c = "6" -> 6 [] c = "7" -> 7
      [] c = "8" -> 8 [] c = "9" -> 9

\* the longest prefix of s made of digits
RECURSIVE DigitPrefix(_)
DigitPrefix(s) ==
    IF s = <<>> \/ Head(s) \notin Digits THEN <<>>
    ELSE <<Head(s)>> \o DigitPrefix(Tail(s))

RECURSIVE DecimalValue(_, _)
DecimalValue(s, acc) ==
    IF s = <<>> THEN acc ELSE DecimalValue(Tail(s), 10 * acc + DigitVal(Head(s)))

\* fmt.Sscanf(val, "%d", &n): an optional sign, then at least one digit; the
\* scan stops at the first character that is no digit and ignores the rest.
\* parsed is the number of items stored, err the scan error.
Sscanf_d(val) ==
    LET signed == val # <<>> /\ Head(val) \in {"-", "+"}
        rest   == IF signed THEN Tail(val) ELSE val
        ds     == DigitPrefix(rest)
        neg    == signed /\ Head(val) = "-"
    IN  IF ds = <<>>
        THEN [parsed |-> 0, err |-> TRUE, value |-> 0]
        ELSE [parsed |-> 1, err |-> FALSE,
              value |-> IF neg THEN 0 - DecimalValue(ds, 0) ELSE DecimalValue(ds, 0)]

defaultMaxRetries == 10

\* a plausible slip: the parsed number is used without the "< 1" check
MaxRetriesFromEnv_unchecked(val) ==
    IF val = <<>> THEN defaultMaxRetries
    ELSE LET r == Sscanf_d(val)
         IN  IF r.err \/ r.parsed # 1 THEN defaultMaxRetries ELSE r.value

MaxRetriesFromEnv(val) ==
    IF val = <<>> THEN defaultMaxRetries
    ELSE LET r == Sscanf_d(val)
         IN  IF r.err \/ r.parsed # 1 \/ r.value < 1
             THEN defaultMaxRetries
             ELSE r.value

\* the values RABBITMQ_MAX_RETRIES takes in the model: unset, unparsable,
\* below 1, and small valid budgets (one followed by junk the scan ignores)
EnvUnset == <<>>
EnvInvalid == {<<"a", "b", "c">>, <<"0">>, <<"-", "1">>, <<"-">>}
EnvValid == {<<"1">>, <<"2">>, <<"3", "x">>}
EnvValues == {EnvUnset} \cup EnvInvalid \cup EnvValid


(***************************************************************************)
(* State.                                                                  *)
(***************************************************************************)
VARIABLES
    \* ---- auth service
    authState,    \* "starting" until start() has run, then "serving"
    users,        \* the users table (Identity Store): rows
    channel,      \* rabbitmq.js `channel`: "null", "open", or "closed" (an
                  \* object whose connection has closed)
    reconnects,   \* pending setTimeout(connectRabbitMQ, 5000) timers
    authResp,     \* the last response of POST /api/auth/register or login
    sent,         \* the last message handed to channel.publish, or None
    \* ---- broker
    brokerUp,     \* the broker accepts connections
    bindings,     \* routing keys the tasks queue is bound with
    declared,     \* the exchanges and queues the broker holds
    queue,        \* messages ready in the tasks queue, oldest first
    published,    \* messages accepted into the queue so far (their ids)
    \* ---- tasks service: main and NewConsumer
    tasksPc,      \* position of main
    environ,      \* the environment the running process was started in
    restarts,         \* restarts of the tasks service so far
    val,          \* NewConsumer's local val: RABBITMQ_MAX_RETRIES as read
    maxRetries,   \* NewConsumer's local maxRetries
    i,            \* NewConsumer's loop variable
    attempts,     \* amqp.Dial calls made by the running NewConsumer
    slept,        \* the seconds the running NewConsumer has slept, one entry
                  \* for each time.Sleep, oldest first
    opened,       \* what the tasks service holds open at the broker: "conn",
                  \* "channel"
    connLost,     \* the consumer's connection was closed by the broker or
                  \* the network after NewConsumer opened it
    \* ---- tasks service: consumer goroutine
    consumerPc,   \* "off", "select" (waiting in the select), "handling"
    inflight,     \* the delivery handed to handleMessage, not yet settled
    handled,      \* what each handleMessage call did, oldest first
    peer,         \* a second instance of the tasks service on the same queue
                  \* and database: its position and the delivery it holds
    \* ---- tasks database
    tasks_users,  \* the Identity Cache table: rows
    tasks,        \* the tasks table: rows
    taskSeq,      \* tasks inserted so far (uuid.New() never repeats an id)
    now,          \* the clock read by time.Now()
    dbFails,      \* storage failures injected so far
    \* ---- tasks service: HTTP
    req,          \* the request being served, or None
    taskResp,     \* the last response of the task API
    notFoundFor   \* identity ids answered "owner not found" so far

vars == <<authState, users, channel, reconnects, authResp, sent,
          brokerUp, bindings, declared, queue, published,
          tasksPc, environ, restarts, val, maxRetries, i, attempts, slept,
          opened, connLost,
          consumerPc, inflight, handled, peer,
          tasks_users, tasks, taskSeq, now, dbFails,
          req, taskResp, notFoundFor>>

authVars     == <<authState, users, channel, reconnects, authResp, sent>>
brokerVars   == <<brokerUp, bindings, declared, queue, published>>
bootVars     == <<tasksPc, environ, restarts, val, maxRetries, i, attempts, slept,
                   opened, connLost>>
consumerVars == <<consumerPc, inflight, handled, peer>>
dbVars       == <<tasks_users, tasks, taskSeq, now, dbFails>>
httpVars     == <<req, taskResp, notFoundFor>>

StoreIds == {u.id : u \in users}
CacheIds == {r.user_id : r \in tasks_users}
RowsFor(id) == {r \in tasks_users : r.user_id = id}

(***************************************************************************)
(* Broker: the topic exchange auth_events and the tasks queue.             *)
(***************************************************************************)
EXCHANGE_NAME == "auth_events"

\* a durable topic exchange and a durable queue, as both services declare them
Exchange(name) ==
    [kind |-> "exchange", name |-> name, type |-> "topic", durable |-> TRUE]
DurableQueue(name) == [kind |-> "queue", name |-> name, durable |-> TRUE]

\* exchange.declare / queue.declare: the broker refuses an entity whose name
\* is taken by one with other attributes (406) and otherwise holds it after
\* the call, whether or not it held it before
DeclareOk(held, entity) ==
    \A x \in held : (x.kind = entity.kind /\ x.name = entity.name) => x = entity

\* the exchange routes a message to the queue when a binding equals its key
\* (the bindings of NewConsumer hold no wildcard)
Routed(rk) == rk \in bindings

\* what the exchange does with one published message
Enqueue(rk, body) ==
    IF Routed(rk)
    THEN /\ queue' = Append(queue, [mid |-> published + 1, rk |-> rk, body |-> body])
         /\ published' = published + 1
    ELSE UNCHANGED <<queue, published>>

\* room in the model for one more queued message
CanPublish(rk) == Routed(rk) => published < MaxMsgs

(***************************************************************************)
(* auth service: rabbitmq.js                                               *)
(***************************************************************************)
\* a plausible slip: the catch logs the failure and schedules nothing
connectRabbitMQ_noRetry(timers) ==
    IF brokerUp /\ DeclareOk(declared, Exchange(EXCHANGE_NAME))
    THEN /\ channel' = "open"
         /\ declared' = declared \cup {Exchange(EXCHANGE_NAME)}
         /\ reconnects' = timers
    ELSE /\ channel' = channel
         /\ declared' = declared
         /\ reconnects' = timers

\* connectRabbitMQ: connect, createChannel, assertExchange; on failure the
\* catch schedules another run in 5 s and leaves `channel` as it was
connectRabbitMQ(timers) ==
    IF brokerUp /\ DeclareOk(declared, Exchange(EXCHANGE_NAME))
    THEN /\ channel' = "open"
         /\ declared' = declared \cup {Exchange(EXCHANGE_NAME)}
         /\ reconnects' = timers
    ELSE /\ channel' = channel
         /\ declared' = declared
         /\ reconnects' = timers + 1

\* start(): await connectRabbitMQ(), then listen (a failed connect is caught
\* inside connectRabbitMQ, so the server listens with channel = null)
AuthStart ==
    /\ authState = "starting"
    /\ connectRabbitMQ(reconnects)
    /\ authState' = "serving"
    /\ UNCHANGED <<users, authResp, sent, brokerUp, bindings, queue, published>>
    /\ UNCHANGED <<bootVars, consumerVars, dbVars, httpVars>>

\* a reconnect timer fires
ReconnectTimer ==
    /\ reconnects > 0
    /\ connectRabbitMQ(reconnects - 1)
    /\ UNCHANGED <<authState, users, authResp, sent, brokerUp, bindings, queue,
                   published>>
    /\ UNCHANGED <<bootVars, consumerVars, dbVars, httpVars>>

\* connection.on("close"): the publisher's connection drops; `channel` keeps
\* the closed channel object until a reconnect succeeds
PublisherConnectionClosed ==
    /\ channel = "open"
    /\ channel' = "closed"
    /\ reconnects' = reconnects + 1
    /\ UNCHANGED <<authState, users, authResp, sent, brokerUp, bindings, declared,
                   queue, published>>
    /\ UNCHANGED <<bootVars, consumerVars, dbVars, httpVars>>

\* a plausible slip: no try/catch around channel.publish
publishEvent_noCatch(ch) ==
    IF ch = "null" THEN "false"
    ELSE IF ch = "closed" THEN "throw"
    ELSE "true"

\* publishEvent's outcome for the state of `channel`: "true" (published),
\* "false" (no channel, or channel.publish threw and was caught), "throw"
publishEvent(ch) ==
    IF ch = "null" THEN "false"
    ELSE IF ch = "closed" THEN "false"
    ELSE "true"

(***************************************************************************)
(* auth service: POST /api/auth/register                                   *)
(***************************************************************************)
\* passwords a client registers with, and those it tries at login
Passwords == {"s3cret"}
LoginPasswords == Passwords \cup {"guess"}

\* bcrypt.hash(password, 10), and bcrypt.compare(password, hash)
bcrypt_hash(password) == "$2b$10$" \o password
bcrypt_compare(password, hash) == hash = bcrypt_hash(password)

\* channel.publish(EXCHANGE_NAME, routingKey, JSON.stringify(message)): the
\* exchange routes the message, and `sent` keeps what went out
Publish(rk, body) ==
    /\ Enqueue(rk, body)
    /\ sent' = [rk |-> rk, body |-> body]

\* gen_random_uuid(): an id no row has
FreshId ==
    LET k == CHOOSE k \in 1..Len(IdSeq) :
                 /\ IdSeq[k] \notin StoreIds
                 /\ \A j \in 1..(k - 1) : IdSeq[j] \in StoreIds
    IN  IdSeq[k]

\* the body of the user.created message as register builds it
CreatedBody(user) ==
    [userId |-> user.id, username |-> user.username, email |-> user.email,
     createdAt |-> user.created_at]

\* a plausible slip: the users table has no UNIQUE constraint on username and
\* email, so the INSERT of a taken name succeeds
RegisterOutcome_noUnique(conflict, dbOk, pub) ==
    IF ~dbOk THEN [insert |-> FALSE, publish |-> FALSE, status |-> 500]
    ELSE IF pub = "throw" THEN [insert |-> TRUE, publish |-> FALSE, status |-> 500]
    ELSE [insert |-> TRUE, publish |-> pub = "true", status |-> 201]

\* the handler's control flow: the INSERT (unique violation 23505 -> 409, any
\* other error -> 500), then publishEvent, whose return value is ignored; an
\* exception out of publishEvent lands in the catch and answers 500
RegisterOutcome(conflict, dbOk, pub) ==
    IF ~dbOk THEN [insert |-> FALSE, publish |-> FALSE, status |-> 500]
    ELSE IF conflict THEN [insert |-> FALSE, publish |-> FALSE, status |-> 409]
    ELSE IF pub = "throw" THEN [insert |-> TRUE, publish |-> FALSE, status |-> 500]
    ELSE [insert |-> TRUE, publish |-> pub = "true", status |-> 201]

\* the row the INSERT stores, and what RETURNING id, username, email,
\* created_at gives back of it
InsertedRow(username, email, password_hash) ==
    [id |-> FreshId, username |-> username, email |-> email,
     password_hash |-> password_hash, created_at |-> "NOW()"]

Returning(row) ==
    [id |-> row.id, username |-> row.username, email |-> row.email,
     created_at |-> row.created_at]

Register(username, email, dbOk) ==
    /\ authState = "serving"
    /\ StoreIds # Ids
    /\ CanPublish("user.created")
    /\ \E password \in Passwords :
       LET conflict == \E u \in users : u.username = username \/ u.email = email
           pub  == publishEvent(channel)
           out  == RegisterOutcome(conflict, dbOk, pub)
           row  == InsertedRow(username, email, bcrypt_hash(password))
           user == Returning(row)
       IN  /\ users' = IF out.insert THEN users \cup {row} ELSE users
           /\ IF out.publish
              THEN Publish("user.created", CreatedBody(user))
              ELSE UNCHANGED <<queue, published, sent>>
           /\ authResp' = [status |-> out.status,
                           id |-> IF out.insert THEN user.id ELSE "",
                           publish |-> IF dbOk /\ ~conflict THEN pub ELSE "none"]
    /\ UNCHANGED <<authState, channel, reconnects, brokerUp, bindings, declared>>
    /\ UNCHANGED <<bootVars, consumerVars, dbVars, httpVars>>

(***************************************************************************)
(* auth service: POST /api/auth/login                                      *)
(***************************************************************************)
JWT_SECRET == "your-secret-key"

\* JWT_EXPIRES_IN, "24h", in hours
JWT_EXPIRES_IN == 24

\* the hours at which the model signs and verifies tokens: the hour of
\* signing, the last hour before expiry and the hour of expiry
Hours == {0, 23, 24}

\* jwt.sign(payload, secret, {expiresIn}) at hour t
jwt_sign(payload, secret, t) ==
    [payload |-> payload, iat |-> t, exp |-> t + JWT_EXPIRES_IN, key |-> secret]

\* a plausible slip: the event is built from the whole row
LoginBody_wholeRow(user) ==
    [userId |-> user.id, username |-> user.username, loginAt |-> "new Date()",
     email |-> user.email, password_hash |-> user.password_hash]

\* the body of the user.login message as login builds it
LoginBody(user) ==
    [userId |-> user.id, username |-> user.username, loginAt |-> "new Date()"]

\* SELECT * FROM users WHERE email = $1, bcrypt.compare, jwt.sign,
\* publishEvent (its return value ignored), then the answer
Login(email, password, t) ==
    /\ authState = "serving"
    /\ LET rows == {u \in users : u.email = email}
           user == CHOOSE u \in rows : TRUE
           pub  == publishEvent(channel)
       IN  IF rows = {} \/ ~bcrypt_compare(password, user.password_hash)
           THEN /\ authResp' = [status |-> 401, id |-> "", publish |-> "none",
                                error |-> "Invalid credentials"]
                /\ UNCHANGED <<queue, published, sent>>
           ELSE /\ authResp' =
                      [status |-> 200, id |-> user.id, publish |-> pub,
                       token |-> jwt_sign([userId |-> user.id,
                                           username |-> user.username,
                                           email |-> user.email],
                                          JWT_SECRET, t)]
                /\ IF pub = "true"
                   THEN Publish("user.login", LoginBody(user))
                   ELSE UNCHANGED <<queue, published, sent>>
    /\ UNCHANGED <<authState, users, channel, reconnects, brokerUp, bindings,
                   declared>>
    /\ UNCHANGED <<bootVars, consumerVars, dbVars, httpVars>>

(***************************************************************************)
(* auth service: GET /api/auth/verify                                      *)
(***************************************************************************)
\* An Authorization header is a sequence of items: words, single spaces and
\* tokens; no header at all is the empty sequence.
W(s) == [w |-> s]
SP == W(" ")

\* String.prototype.split(sep): the parts between the separators
RECURSIVE Split(_, _)
Split(str, sep) ==
    IF str = <<>> THEN << <<>> >>
    ELSE LET rest == Split(Tail(str), sep)
         IN  IF Head(str) = sep
             THEN << <<>> >> \o rest
             ELSE << <<Head(str)>> \o rest[1] >> \o Tail(rest)

\* validateToken: 401 with a message, or next()
validateToken(authHeader) ==
    IF authHeader = <<>>
    THEN [status |-> 401, error |-> "Authorization header is required"]
    ELSE LET parts == Split(authHeader, SP)
         IN  IF Len(parts) # 2 \/ parts[1] # <<W("Bearer")>>
             THEN [status |-> 401,
                   error |-> "Invalid authorization format. Use: Bearer <token>"]
             ELSE IF parts[2] = <<>>
             THEN [status |-> 401, error |-> "Token is required"]
             ELSE [status |-> 0, error |-> ""]

\* a plausible slip: the claims are accepted only for a stored identity
jwt_verify_storedOnly(token, secret, t) ==
    IF Len(token) # 1 \/ "payload" \notin DOMAIN token[1]
    THEN [ok |-> FALSE, error |-> "jwt malformed"]
    ELSE IF token[1].key # secret
    THEN [ok |-> FALSE, error |-> "invalid signature"]
    ELSE IF t >= token[1].exp
    THEN [ok |-> FALSE, error |-> "jwt expired"]
    ELSE IF token[1].payload.userId \notin StoreIds
    THEN [ok |-> FALSE, error |-> "unknown user"]
    ELSE [ok |-> TRUE,
          decoded |-> [userId |-> token[1].payload.userId,
                       username |-> token[1].payload.username,
                       email |-> token[1].payload.email,
                       iat |-> token[1].iat, exp |-> token[1].exp]]

\* jwt.verify(token, secret) at hour t: throws on a string that is no JWT, on
\* a signature made with another key, and from the hour of expiry on;
\* otherwise the payload with iat and exp
jwt_verify(token, secret, t) ==
    IF Len(token) # 1 \/ "payload" \notin DOMAIN token[1]
    THEN [ok |-> FALSE, error |-> "jwt malformed"]
    ELSE IF token[1].key # secret
    THEN [ok |-> FALSE, error |-> "invalid signature"]
    ELSE IF t >= token[1].exp
    THEN [ok |-> FALSE, error |-> "jwt expired"]
    ELSE [ok |-> TRUE,
          decoded |-> [userId |-> token[1].payload.userId,
                       username |-> token[1].payload.username,
                       email |-> token[1].payload.email,
                       iat |-> token[1].iat, exp |-> token[1].exp]]

\* a plausible slip: the catch answers 200 with valid: false
VerifyAnswer_softFail(authHeader, t) ==
    LET pre == validateToken(authHeader)
    IN  IF pre.status # 0 THEN pre
        ELSE LET v == jwt_verify(Split(authHeader, SP)[2], JWT_SECRET, t)
             IN  IF v.ok THEN [status |-> 200, valid |-> TRUE, user |-> v.decoded]
                 ELSE [status |-> 200, error |-> "Invalid token"]

\* the answer of GET /api/auth/verify to a request with this header at hour t
VerifyAnswer(authHeader, t) ==
    LET pre == validateToken(authHeader)
    IN  IF pre.status # 0 THEN pre
        ELSE LET v == jwt_verify(Split(authHeader, SP)[2], JWT_SECRET, t)
             IN  IF v.ok THEN [status |-> 200, valid |-> TRUE, user |-> v.decoded]
                 ELSE [status |-> 401, error |-> "Invalid token"]

\* the claims login signs for an identity
Claims(id, username, email) ==
    [userId |-> id, username |-> username, email |-> email]

\* the token the authority signed
SignedToken == jwt_sign(Claims(IdSeq[2], "bob", "b@x.com"), JWT_SECRET, 0)

\* tokens a client may hold: one the authority signed at hour 0 for the
\* second identity, one signed with another key, and a string that is no JWT
TokenInputs ==
    {SignedToken,
     jwt_sign(Claims(IdSeq[2], "bob", "b@x.com"), "another-key", 0),
     W("invalid_token_12345")}

\* headers a client may send
HeaderInputs ==
    {<<>>, <<W("Bearer")>>, <<W("Bearer"), SP>>, <<W("Basic"), SP, SignedToken>>,
     <<SignedToken>>, <<W("Bearer"), SP, SP, SignedToken>>}
        \cup {<<W("Bearer"), SP, tok>> : tok \in TokenInputs}

Verify(authHeader, t) ==
    /\ authState = "serving"
    /\ authResp' = [op |-> "verify", header |-> authHeader, at |-> t,
                    answer |-> VerifyAnswer(authHeader, t), status |-> 0,
                    id |-> "", publish |-> "none"]
    /\ UNCHANGED <<authState, users, channel, reconnects, sent>>
    /\ UNCHANGED <<brokerVars, bootVars, consumerVars, dbVars, httpVars>>

(***************************************************************************)
(* Other producers on the exchange (a test harness, a later version of the *)
(* authority): the bodies and keys the consumer is written to handle.      *)
(***************************************************************************)
\* a body that is no JSON document
Garbage == [raw |-> "{not json"]

\* an identity fact in the wire format of the consumer's UserEvent
Fact(kind, id, username, email) ==
    [eventType |-> kind, userId |-> id, username |-> username, email |-> email,
     timestamp |-> "T0"]

Profiles == {<<"alice", "a@x.com">>, <<"bob", "b@x.com">>}

ExternalMessages ==
    {[rk |-> k, body |-> Fact(k, id, p[1], p[2])] :
        k \in {"user.created", "user.updated"}, id \in Ids, p \in Profiles}
    \cup {[rk |-> "user.created", body |-> Garbage]}

\* two facts about one identity that differ in username and email
ScaleMessages ==
    {[rk |-> "user.created",
      body |-> Fact("user.created", IdSeq[1], "alice", "a@x.com")],
     [rk |-> "user.updated",
      body |-> Fact("user.updated", IdSeq[1], "bob", "b@x.com")]}

\* one fact and one body that does not decode: what the consumer's life
\* cycle needs of the producers
LifecycleMessages ==
    {[rk |-> "user.created",
      body |-> Fact("user.created", IdSeq[1], "alice", "a@x.com")],
     [rk |-> "user.created", body |-> Garbage]}

\* a JSON object with a username and an email and no userId
NoIdBody == [username |-> "alice", email |-> "a@x.com"]

\* what other producers can put on the exchange under the consumer's keys: a
\* fact, and a JSON object without userId
StrayMessages ==
    {[rk |-> "user.created",
      body |-> Fact("user.created", IdSeq[1], "alice", "a@x.com")],
     [rk |-> "user.created", body |-> NoIdBody]}

\* what reaches the queue past the bindings: a message published to the
\* default exchange with the queue's name as its routing key
DirectMessages ==
    {[rk |-> "tasks-service-queue",
      body |-> Fact("user.deleted", IdSeq[1], "alice", "a@x.com")]}

\* the default exchange routes a message to the queue its routing key names
DirectPublish(m) ==
    /\ brokerUp
    /\ DurableQueue(m.rk) \in declared
    /\ published < MaxMsgs
    /\ queue' = Append(queue, [mid |-> published + 1, rk |-> m.rk, body |-> m.body])
    /\ published' = published + 1
    /\ UNCHANGED <<brokerUp, bindings, declared>>
    /\ UNCHANGED <<authVars, bootVars, consumerVars, dbVars, httpVars>>

ExternalPublish(m) ==
    /\ brokerUp
    /\ Routed(m.rk)
    /\ published < MaxMsgs
    /\ Enqueue(m.rk, m.body)
    /\ UNCHANGED <<brokerUp, bindings, declared>>
    /\ UNCHANGED <<authVars, bootVars, consumerVars, dbVars, httpVars>>

\* the broker becomes reachable
BrokerComesUp ==
    /\ ~brokerUp
    /\ brokerUp' = TRUE
    /\ UNCHANGED <<bindings, declared, queue, published>>
    /\ UNCHANGED <<authVars, bootVars, consumerVars, dbVars, httpVars>>

(***************************************************************************)
(* tasks service: NewConsumer and main                                     *)
(***************************************************************************)
\* a URL as url.Parse splits it; the empty string has no scheme
URL(scheme, authority) == [scheme |-> scheme, authority |-> authority]
NoURL == URL("", "")
BrokerURL == URL("amqp", "admin:admin@localhost:5672")

\* the environment of a process started with nothing set, and of one started
\* with the broker's URL only
NoEnviron ==
    [RABBITMQ_URL |-> NoURL, RABBITMQ_EXCHANGE |-> "", RABBITMQ_QUEUE |-> ""]
UrlEnviron == [NoEnviron EXCEPT !.RABBITMQ_URL = BrokerURL]

\* the environments a process is started in: also one that names the
\* exchange and the queue
Environs ==
    {NoEnviron, UrlEnviron,
     [UrlEnviron EXCEPT !.RABBITMQ_EXCHANGE = "auth_events",
                        !.RABBITMQ_QUEUE = "tasks-service-queue"]}

\* amqp.Dial(url): ParseURI refuses a scheme other than amqp and amqps
\* before any connection is tried
amqpDial(url, up) ==
    IF url.scheme \notin {"amqp", "amqps"} THEN "errURIScheme"
    ELSE IF ~up \/ url # BrokerURL THEN "refused"
    ELSE "ok"

\* a plausible slip: a default URL like the publisher's
DialURL_withDefault(e) ==
    IF e.RABBITMQ_URL = NoURL THEN BrokerURL ELSE e.RABBITMQ_URL

\* the URL NewConsumer dials: os.Getenv("RABBITMQ_URL") as it is
DialURL(e) == e.RABBITMQ_URL

\* exchange and queueName of NewConsumer, with their defaults
ExchangeName(e) ==
    IF e.RABBITMQ_EXCHANGE = "" THEN "auth_events" ELSE e.RABBITMQ_EXCHANGE
QueueName(e) ==
    IF e.RABBITMQ_QUEUE = "" THEN "tasks-service-queue" ELSE e.RABBITMQ_QUEUE

\* queueName of Start: os.Getenv("RABBITMQ_QUEUE") as it is
StartQueueName(e) == e.RABBITMQ_QUEUE

\* basic.consume: an empty queue name stands for the queue the channel
\* declared last
ConsumedQueue(queueName, lastDeclared) ==
    IF queueName = "" THEN lastDeclared ELSE queueName

\* main starts in environment e: NewConsumer reads RABBITMQ_MAX_RETRIES and
\* enters the dial loop; a budget below 1 would skip the loop with err == nil
NewConsumerIn(e, env) ==
    /\ tasksPc = "main"
    /\ environ' = e
    /\ val' = env
    /\ maxRetries' = MaxRetriesFromEnv(env)
    /\ i' = 0
    /\ attempts' = 0
    /\ slept' = <<>>
    /\ opened' = {}
    /\ tasksPc' = IF maxRetries' > 0 THEN "dial" ELSE "declare"
    /\ UNCHANGED <<restarts, connLost>>
    /\ UNCHANGED <<authVars, brokerVars, consumerVars, dbVars, httpVars>>

\* main starts with the broker's URL set: NewConsumer reads
\* RABBITMQ_MAX_RETRIES and enters the dial loop; a budget below 1 would skip
\* the loop with err == nil
NewConsumerBegin(env) == NewConsumerIn(UrlEnviron, env)

\* a plausible slip: the same delay after every failed dial
waitTime_constant(k) == 1

\* waitTime := time.Duration(i+1) * time.Second, in seconds
waitTime(k) == k + 1

\* a plausible slip: no break after a dial that succeeded
Dial_noBreak ==
    /\ tasksPc = "dial"
    /\ i < maxRetries
    /\ attempts' = attempts + 1
    /\ i' = i + 1
    /\ tasksPc' = IF i + 1 < maxRetries THEN "dial"
                  ELSE IF amqpDial(DialURL(environ), brokerUp) = "ok"
                  THEN "declare" ELSE "fatal"
    /\ opened' = IF amqpDial(DialURL(environ), brokerUp) = "ok" THEN {"conn"}
                 ELSE opened
    /\ UNCHANGED <<environ, restarts, val, maxRetries, slept, connLost>>
    /\ UNCHANGED <<authVars, brokerVars, consumerVars, dbVars, httpVars>>

\* one iteration of the loop: amqp.Dial, break on success, else sleep
\* (i+1) seconds unless this was the last attempt; after the last failure
\* NewConsumer returns the error and main ends the process (log.Fatalf)
Dial ==
    /\ tasksPc = "dial"
    /\ i < maxRetries
    /\ attempts' = attempts + 1
    /\ IF amqpDial(DialURL(environ), brokerUp) = "ok"
       THEN /\ tasksPc' = "declare"
            /\ i' = i
       ELSE /\ i' = i + 1
            /\ tasksPc' = IF i + 1 < maxRetries THEN "dial" ELSE "fatal"
    /\ slept' = IF amqpDial(DialURL(environ), brokerUp) # "ok" /\ i < maxRetries - 1
                THEN Append(slept, waitTime(i))
                ELSE slept
    /\ opened' = IF amqpDial(DialURL(environ), brokerUp) = "ok" THEN {"conn"}
                 ELSE opened
    /\ UNCHANGED <<environ, restarts, val, maxRetries, connLost>>
    /\ UNCHANGED <<authVars, brokerVars, consumerVars, dbVars, httpVars>>

\* a plausible slip: the queue is deleted and declared afresh
Redeclared_purged(q) == <<>>

\* the messages waiting in a queue that is declared again
Redeclared(q) == q

\* the calls NewConsumer makes on its connection, in their order
NewConsumerSteps == <<"channel", "exchange", "queue", "bind_created", "bind_updated">>

\* the calls before call `step`
Before(step) ==
    {NewConsumerSteps[k] : k \in {j \in DOMAIN NewConsumerSteps :
        \E l \in DOMAIN NewConsumerSteps : l > j /\ NewConsumerSteps[l] = step}}

\* what NewConsumer holds open when call `step` returns an error: the
\* connection, and the channel unless conn.Channel() is the call that failed
OpenedAt(step) == IF step = "channel" THEN {"conn"} ELSE {"conn", "channel"}

\* a plausible slip: the error branches of the two QueueBind calls close the
\* channel and leave the connection open
CloseOnError_bindLeak(step) ==
    IF step = "channel" THEN {"conn"}
    ELSE IF step \in {"bind_created", "bind_updated"} THEN {"channel"}
    ELSE {"channel", "conn"}

\* what the error branch of call `step` closes before NewConsumer returns
CloseOnError(step) ==
    IF step = "channel" THEN {"conn"} ELSE {"channel", "conn"}

\* NewConsumer with call `step` failing (the broker refuses it or the
\* connection breaks): what the calls before it declared stays declared, the
\* error branch closes what was opened, NewConsumer returns the error and
\* main ends the process
DeclareFails(step) ==
    /\ tasksPc = "declare"
    /\ step \in {NewConsumerSteps[k] : k \in DOMAIN NewConsumerSteps}
    /\ LET exchange  == Exchange(ExchangeName(environ))
           queueName == DurableQueue(QueueName(environ))
       IN  /\ DeclareOk(declared, exchange) /\ DeclareOk(declared, queueName)
           /\ declared' = declared
                  \cup (IF "exchange" \in Before(step) THEN {exchange} ELSE {})
                  \cup (IF "queue" \in Before(step) THEN {queueName} ELSE {})
           /\ bindings' = IF "bind_created" \in Before(step)
                             /\ exchange.name = EXCHANGE_NAME
                          THEN bindings \cup {"user.created"}
                          ELSE bindings
    /\ opened' = OpenedAt(step) \ CloseOnError(step)
    /\ tasksPc' = "fatal"
    /\ val' = <<>>
    /\ maxRetries' = 0
    /\ i' = 0
    /\ attempts' = 0
    /\ slept' = <<>>
    /\ UNCHANGED <<brokerUp, queue, published, connLost, environ, restarts>>
    /\ UNCHANGED <<authVars, consumerVars, dbVars, httpVars>>

\* conn.Channel, ExchangeDeclare, QueueDeclare and the two QueueBind calls;
\* a refused declaration makes NewConsumer return the error and main end
\* the process; otherwise NewConsumer returns and its locals are gone
Declare ==
    /\ tasksPc = "declare"
    /\ LET exchange  == Exchange(ExchangeName(environ))
           queueName == DurableQueue(QueueName(environ))
       IN  IF DeclareOk(declared, exchange) /\ DeclareOk(declared, queueName)
           THEN /\ declared' = declared \cup {exchange, queueName}
                /\ bindings' = IF exchange.name = EXCHANGE_NAME
                               THEN bindings \cup {"user.created", "user.updated"}
                               ELSE bindings
                /\ queue' = IF queueName \in declared THEN Redeclared(queue)
                            ELSE queue
                /\ opened' = {"conn", "channel"}
                /\ tasksPc' = "start"
           ELSE /\ UNCHANGED <<declared, bindings, queue>>
                /\ opened' = LET step == IF DeclareOk(declared, exchange)
                                         THEN "queue" ELSE "exchange"
                             IN  OpenedAt(step) \ CloseOnError(step)
                /\ tasksPc' = "fatal"
    /\ val' = <<>>
    /\ maxRetries' = 0
    /\ i' = 0
    /\ attempts' = 0
    /\ slept' = <<>>
    /\ UNCHANGED <<brokerUp, published, connLost, environ, restarts>>
    /\ UNCHANGED <<authVars, consumerVars, dbVars, httpVars>>

\* Consumer.Start: register the consumer (manual ack) on the queue and start
\* the goroutine; a queue the broker does not hold is an error and main ends
\* the process
Start ==
    /\ tasksPc = "start"
    /\ IF DurableQueue(ConsumedQueue(StartQueueName(environ), QueueName(environ)))
            \in declared
       THEN /\ consumerPc' = "select"
            /\ tasksPc' = "listen"
       ELSE /\ consumerPc' = consumerPc
            /\ tasksPc' = "fatal"
    /\ UNCHANGED <<environ, restarts, val, maxRetries, i, attempts, slept, opened, connLost>>
    /\ UNCHANGED <<inflight, handled, peer>>
    /\ UNCHANGED <<authVars, brokerVars, dbVars, httpVars>>

\* main builds the router and the HTTP server starts listening
Listen ==
    /\ tasksPc = "listen"
    /\ tasksPc' = "serving"
    /\ UNCHANGED <<environ, restarts, val, maxRetries, i, attempts, slept, opened, connLost>>
    /\ UNCHANGED <<authVars, brokerVars, consumerVars, dbVars, httpVars>>

(***************************************************************************)
(* tasks service: the consume loop, handleMessage and cacheUser            *)
(***************************************************************************)
\* a string the uuid package parses
IsUUID(str) == str \in Ids \cup {NilUUID}

\* json.Unmarshal(msg.Body, &event) into models.UserEvent: fields are matched
\* by their json tags, unknown keys are ignored, missing keys leave the zero
\* value, and a userId that is no UUID is an error
Unmarshal(body) ==
    LET get(k) == IF k \in DOMAIN body THEN body[k] ELSE ""
        zero   == [EventType |-> "", UserID |-> NilUUID, Username |-> "", Email |-> ""]
    IN  IF "raw" \in DOMAIN body THEN [ok |-> FALSE, event |-> zero]
        ELSE IF "userId" \in DOMAIN body /\ ~IsUUID(body["userId"])
        THEN [ok |-> FALSE, event |-> zero]
        ELSE [ok |-> TRUE,
              event |-> [EventType |-> get("eventType"),
                         UserID    |-> IF "userId" \in DOMAIN body
                                       THEN body["userId"] ELSE NilUUID,
                         Username  |-> get("username"),
                         Email     |-> get("email")]]

\* a plausible slip: the switch has a case for user.updated only
CacheKeys_updatedOnly == {"user.updated"}

\* the routing keys handleMessage sends to cacheUser
CacheKeys == {"user.created", "user.updated"}

\* a plausible slip: the message is acknowledged although caching failed
Settle_ackOnError(decoded, rk, cacheErr) ==
    IF ~decoded THEN "nack_drop" ELSE "ack"

\* a plausible slip: a failed upsert rejects without requeue
Settle_dropOnError(decoded, rk, cacheErr) ==
    IF ~decoded THEN "nack_drop"
    ELSE IF rk \in CacheKeys /\ cacheErr THEN "nack_drop"
    ELSE "ack"

\* a plausible slip: a body that does not decode is requeued
Settle_requeuePoison(decoded, rk, cacheErr) ==
    IF ~decoded THEN "nack_requeue"
    ELSE IF rk \in CacheKeys /\ cacheErr THEN "nack_requeue"
    ELSE "ack"

\* a plausible slip: the switch has a default case that rejects the delivery
Settle_rejectUnknown(decoded, rk, cacheErr) ==
    IF ~decoded THEN "nack_drop"
    ELSE IF rk \notin CacheKeys THEN "nack_drop"
    ELSE IF cacheErr THEN "nack_requeue"
    ELSE "ack"

\* how handleMessage settles the delivery: Nack(false, false) when the body
\* does not decode, Nack(false, true) when cacheUser failed, Ack otherwise
Settle(decoded, rk, cacheErr) ==
    IF ~decoded THEN "nack_drop"
    ELSE IF rk \in CacheKeys /\ cacheErr THEN "nack_requeue"
    ELSE "ack"

NewRow(event, t) ==
    [user_id |-> event.UserID, username |-> event.Username, email |-> event.Email,
     created_at |-> t, updated_at |-> t]

\* a plausible slip: the conflict branch sets username and updated_at only
Upsert_keepEmail(table, event, t) ==
    [err |-> FALSE,
     table |-> IF \E r \in table : r.user_id = event.UserID
               THEN {IF r.user_id = event.UserID
                     THEN [r EXCEPT !.username = event.Username,
                                    !.updated_at = t]
                     ELSE r : r \in table}
               ELSE table \cup {NewRow(event, t)}]

\* a plausible slip: the conflict branch also overwrites created_at
Upsert_replaceRow(table, event, t) ==
    [err |-> FALSE,
     table |-> {r \in table : r.user_id # event.UserID} \cup {NewRow(event, t)}]

\* a plausible slip: a plain INSERT, which the key on user_id fails for an id
\* that is already cached
Upsert_plainInsert(table, event, t) ==
    IF \E r \in table : r.user_id = event.UserID
    THEN [err |-> TRUE, table |-> table]
    ELSE [err |-> FALSE, table |-> table \cup {NewRow(event, t)}]

\* cacheUser's statement on a healthy database: INSERT ... ON CONFLICT
\* (user_id) DO UPDATE SET username, email, updated_at (created_at is left as
\* it is); err is the error Exec returns
Upsert(table, event, t) ==
    [err |-> FALSE,
     table |-> IF \E r \in table : r.user_id = event.UserID
               THEN {IF r.user_id = event.UserID
                     THEN [r EXCEPT !.username = event.Username,
                                    !.email = event.Email,
                                    !.updated_at = t]
                     ELSE r : r \in table}
               ELSE table \cup {NewRow(event, t)}]

\* main has called cancel(): ctx.Done() is closed
ctxDone == tasksPc \in {"return", "closing", "exited"}

\* the consumer's channel and connection are open: NewConsumer opened them,
\* nothing closed them since and consumer.Close() has not run
ConnOpen ==
    /\ tasksPc \in {"declare", "start", "listen", "serving", "cancel", "return"}
    /\ ~connLost

\* the delivery channel msgs is closed (the library closes it with the
\* channel)
msgsClosed == consumerPc # "off" /\ ~ConnOpen

\* the sequence q with x put in after its first pos elements
InsertAt(q, pos, x) ==
    SubSeq(q, 1, pos) \o <<x>> \o SubSeq(q, pos + 1, Len(q))

\* a plausible slip: go c.handleMessage(msg), so the loop takes the next
\* delivery while the handler of the last one runs
Receive_goHandler ==
    /\ consumerPc \in {"select", "handling"}
    /\ ConnOpen
    /\ queue # <<>>
    /\ inflight' = Head(queue)
    /\ queue' = Tail(queue)
    /\ consumerPc' = "handling"
    /\ UNCHANGED <<brokerUp, bindings, declared, published, handled, peer>>
    /\ UNCHANGED <<authVars, bootVars, dbVars, httpVars>>

\* case msg, ok := <-msgs: the next delivery reaches the goroutine
Receive ==
    /\ consumerPc = "select"
    /\ ConnOpen
    /\ queue # <<>>
    /\ inflight' = Head(queue)
    /\ queue' = Tail(queue)
    /\ consumerPc' = "handling"
    /\ UNCHANGED <<brokerUp, bindings, declared, published, handled, peer>>
    /\ UNCHANGED <<authVars, bootVars, dbVars, httpVars>>

\* handleMessage(msg): decode, dispatch on the routing key, cacheUser, settle.
\* dbErr: the database is failing; pos: where the broker puts a requeued
\* message
handleMessage(dbErr, pos) ==
    /\ consumerPc = "handling"
    /\ LET m      == inflight
           d      == Unmarshal(m.body)
           caches == d.ok /\ m.rk \in CacheKeys
           exec   == IF dbErr THEN [err |-> TRUE, table |-> tasks_users]
                     ELSE Upsert(tasks_users, d.event, now)
           err    == caches /\ exec.err
           \* msg.Ack / msg.Nack on a closed channel return an error, which
           \* handleMessage ignores: the delivery stays unsettled
           how    == IF ConnOpen THEN Settle(d.ok, m.rk, err) ELSE "unsettled"
       IN  /\ dbErr => (caches /\ dbFails < MaxDbFail)
           /\ pos \in 0..(IF how = "nack_requeue" THEN Len(queue) ELSE 0)
           /\ tasks_users' = IF caches THEN exec.table ELSE tasks_users
           /\ now' = IF caches THEN now + 1 ELSE now
           /\ dbFails' = IF dbErr THEN dbFails + 1 ELSE dbFails
           /\ queue' = IF how = "nack_requeue" THEN InsertAt(queue, pos, m) ELSE queue
           /\ handled' = Append(handled,
                 [msg |-> m,
                  storage |-> IF dbErr THEN "failing" ELSE "healthy",
                  upsert |-> IF ~caches THEN "none" ELSE IF err THEN "err" ELSE "ok",
                  settle |-> how,
                  before |-> IF caches THEN RowsFor(d.event.UserID) ELSE {},
                  at |-> now,
                  run |-> restarts,
                  by |-> "main"])
    /\ consumerPc' = "select"
    /\ inflight' = None
    /\ UNCHANGED peer
    /\ UNCHANGED <<brokerUp, bindings, declared, published, tasks, taskSeq>>
    /\ UNCHANGED <<authVars, bootVars, httpVars>>

(***************************************************************************)
(* A second instance of the tasks service: the same code in another        *)
(* process, with its own connection, on the same queue and database.       *)
(***************************************************************************)
\* the instance's NewConsumer and Start, once the broker is up
PeerStart ==
    /\ peer.pc = "off"
    /\ brokerUp
    /\ DeclareOk(declared, Exchange(EXCHANGE_NAME))
    /\ DeclareOk(declared, DurableQueue("tasks-service-queue"))
    /\ declared' = declared \cup {Exchange(EXCHANGE_NAME),
                                   DurableQueue("tasks-service-queue")}
    /\ bindings' = bindings \cup {"user.created", "user.updated"}
    /\ peer' = [peer EXCEPT !.pc = "select"]
    /\ UNCHANGED <<brokerUp, queue, published, consumerPc, inflight, handled>>
    /\ UNCHANGED <<authVars, bootVars, dbVars, httpVars>>

\* the broker hands the next message to the instance
PeerReceive ==
    /\ peer.pc = "select"
    /\ queue # <<>>
    /\ peer' = [pc |-> "handling", inflight |-> Head(queue)]
    /\ queue' = Tail(queue)
    /\ UNCHANGED <<brokerUp, bindings, declared, published>>
    /\ UNCHANGED <<consumerPc, inflight, handled>>
    /\ UNCHANGED <<authVars, bootVars, dbVars, httpVars>>

\* the instance's handleMessage(msg): one statement against the shared
\* database, then the settlement
PeerHandleMessage(dbErr, pos) ==
    /\ peer.pc = "handling"
    /\ LET m      == peer.inflight
           d      == Unmarshal(m.body)
           caches == d.ok /\ m.rk \in CacheKeys
           exec   == IF dbErr THEN [err |-> TRUE, table |-> tasks_users]
                     ELSE Upsert(tasks_users, d.event, now)
           err    == caches /\ exec.err
           how    == Settle(d.ok, m.rk, err)
       IN  /\ dbErr => (caches /\ dbFails < MaxDbFail)
           /\ pos \in 0..(IF how = "nack_requeue" THEN Len(queue) ELSE 0)
           /\ tasks_users' = IF caches THEN exec.table ELSE tasks_users
           /\ now' = IF caches THEN now + 1 ELSE now
           /\ dbFails' = IF dbErr THEN dbFails + 1 ELSE dbFails
           /\ queue' = IF how = "nack_requeue" THEN InsertAt(queue, pos, m) ELSE queue
           /\ handled' = Append(handled,
                 [msg |-> m,
                  storage |-> IF dbErr THEN "failing" ELSE "healthy",
                  upsert |-> IF ~caches THEN "none" ELSE IF err THEN "err" ELSE "ok",
                  settle |-> how,
                  before |-> IF caches THEN RowsFor(d.event.UserID) ELSE {},
                  at |-> now,
                  run |-> 0,
                  by |-> "peer"])
    /\ peer' = [pc |-> "select", inflight |-> None]
    /\ UNCHANGED <<brokerUp, bindings, declared, published, tasks, taskSeq>>
    /\ UNCHANGED <<consumerPc, inflight>>
    /\ UNCHANGED <<authVars, bootVars, httpVars>>

\* the deliveries settled so far, by the way they were settled
SettledAs(how) ==
    {handled[k].msg.mid : k \in {j \in DOMAIN handled : handled[j].settle = how}}
acked == SettledAs("ack")
dropped == SettledAs("nack_drop")

\* case <-ctx.Done(): the loop returns
LoopCancelled ==
    /\ consumerPc = "select"
    /\ ctxDone
    /\ consumerPc' = "stopped"
    /\ UNCHANGED <<inflight, handled, peer>>
    /\ UNCHANGED <<authVars, brokerVars, bootVars, dbVars, httpVars>>

\* a plausible slip: the loop dials again when msgs is closed and goes on
\* consuming
LoopClosed_redial ==
    /\ consumerPc = "select"
    /\ msgsClosed
    /\ brokerUp
    /\ connLost' = FALSE
    /\ attempts' = attempts + 1
    /\ UNCHANGED <<tasksPc, environ, restarts, val, maxRetries, i, slept, opened>>
    /\ UNCHANGED <<authVars, brokerVars, consumerVars, dbVars, httpVars>>

\* case msg, ok := <-msgs with ok false: the loop returns; nothing dials
\* again
LoopClosed ==
    /\ consumerPc = "select"
    /\ msgsClosed
    /\ consumerPc' = "ended"
    /\ UNCHANGED <<inflight, handled, peer>>
    /\ UNCHANGED <<authVars, brokerVars, bootVars, dbVars, httpVars>>

\* the queue after the broker has taken back the delivery this consumer
\* holds unsettled (a closed channel requeues its unacknowledged deliveries)
RequeueUnacked ==
    IF ConnOpen /\ inflight # None THEN <<inflight>> \o queue ELSE queue

\* a plausible slip: the queue is declared with delete-when-unused
WhenUnused_autoDelete(q) == <<>>

\* QueueDeclare(durable, delete when unused = false): the messages of the
\* queue when its last consumer is gone
WhenUnused(q) == q

\* the broker or the network closes the consumer's connection while the
\* consume loop runs
ConnectionLost ==
    /\ consumerPc \in {"select", "handling"}
    /\ ConnOpen
    /\ connLost' = TRUE
    /\ queue' = WhenUnused(RequeueUnacked)
    /\ opened' = {}
    /\ UNCHANGED <<tasksPc, environ, restarts, val, maxRetries, i, attempts, slept>>
    /\ UNCHANGED <<brokerUp, bindings, declared, published>>
    /\ UNCHANGED <<authVars, consumerVars, dbVars, httpVars>>

(***************************************************************************)
(* tasks service: main from the signal to the end of the process           *)
(***************************************************************************)
\* <-quit and srv.Shutdown(shutdownCtx): the server stops accepting; a
\* handler still running after 5 s is left running
Shutdown ==
    /\ tasksPc = "serving"
    /\ tasksPc' = "cancel"
    /\ UNCHANGED <<environ, restarts, val, maxRetries, i, attempts, slept, opened, connLost>>
    /\ UNCHANGED <<authVars, brokerVars, consumerVars, dbVars, httpVars>>

\* cancel(): main does not wait for the consumer goroutine
Cancel ==
    /\ tasksPc = "cancel"
    /\ tasksPc' = "return"
    /\ UNCHANGED <<environ, restarts, val, maxRetries, i, attempts, slept, opened, connLost>>
    /\ UNCHANGED <<authVars, brokerVars, consumerVars, dbVars, httpVars>>

\* main returns; the deferred consumer.Close() closes channel and connection
DeferredClose ==
    /\ tasksPc = "return"
    /\ tasksPc' = "closing"
    /\ queue' = WhenUnused(RequeueUnacked)
    /\ opened' = {}
    /\ UNCHANGED <<environ, restarts, val, maxRetries, i, attempts, slept, connLost>>
    /\ UNCHANGED <<brokerUp, bindings, declared, published>>
    /\ UNCHANGED <<authVars, consumerVars, dbVars, httpVars>>

\* the deferred db.Close() and the end of the process: the goroutines that
\* still run end where they are
Exit ==
    /\ tasksPc = "closing"
    /\ tasksPc' = "exited"
    /\ consumerPc' = IF consumerPc \in {"select", "handling"} THEN "killed"
                     ELSE consumerPc
    /\ req' = None
    /\ UNCHANGED <<environ, restarts, val, maxRetries, i, attempts, slept, opened, connLost>>
    /\ UNCHANGED <<inflight, handled, peer, taskResp, notFoundFor>>
    /\ UNCHANGED <<authVars, brokerVars, dbVars>>

\* the process is started again after it ended (exited, or log.Fatalf): it
\* begins at main with nothing of the last run but the database and the
\* broker's exchange, queue, bindings and messages
Restart ==
    /\ tasksPc \in {"exited", "fatal"}
    /\ restarts < MaxRestarts
    /\ restarts' = restarts + 1
    /\ tasksPc' = "main"
    /\ environ' = NoEnviron
    /\ val' = <<>>
    /\ maxRetries' = 0
    /\ i' = 0
    /\ attempts' = 0
    /\ slept' = <<>>
    /\ opened' = {}
    /\ connLost' = FALSE
    /\ consumerPc' = "off"
    /\ inflight' = None
    /\ req' = None
    /\ UNCHANGED <<handled, peer, taskResp, notFoundFor>>
    /\ UNCHANGED <<authVars, brokerVars, dbVars>>

(***************************************************************************)
(* tasks service: the task API (POST /api/tasks)                           *)
(***************************************************************************)
\* lookup(id) of the Identity Cache: the cached identity is there or not
ResolveOwner(table, id) ==
    IF \E r \in table : r.user_id = id THEN "found" ELSE "absent"

\* AuthMiddleware(db) for a request whose token is valid: the identity id of
\* the claims is looked up in the cache; an absent owner ends the request
\* with its own condition, otherwise the id is stored in the context
AuthMiddlewareOutcome(table, id) ==
    IF ResolveOwner(table, id) = "absent" THEN "owner_not_found" ELSE "next"

\* a plausible slip: the validator forgets the expiry
TokenValidator_noExpiry(authHeader, secret, t) ==
    IF authHeader = <<>>
    THEN [ok |-> FALSE, error |-> "authorization header required"]
    ELSE LET parts == Split(authHeader, SP)
         IN  IF Len(parts) # 2 \/ parts[1] # <<W("Bearer")>> \/ parts[2] = <<>>
             THEN [ok |-> FALSE, error |-> "invalid token"]
             ELSE LET v == jwt_verify(parts[2], secret, 0)
                  IN  IF v.ok THEN [ok |-> TRUE, claims |-> v.decoded]
                      ELSE [ok |-> FALSE, error |-> "invalid token"]

\* validate(token, secret) -> claims | AuthError of the Token Validator: a
\* missing header is an error that names the authorization header; a header
\* that is not "Bearer <token>", a signature made with another key and an
\* expired token are "invalid token"
TokenValidator(authHeader, secret, t) ==
    IF authHeader = <<>>
    THEN [ok |-> FALSE, error |-> "authorization header required"]
    ELSE LET parts == Split(authHeader, SP)
         IN  IF Len(parts) # 2 \/ parts[1] # <<W("Bearer")>> \/ parts[2] = <<>>
             THEN [ok |-> FALSE, error |-> "invalid token"]
             ELSE LET v == jwt_verify(parts[2], secret, t)
                  IN  IF v.ok THEN [ok |-> TRUE, claims |-> v.decoded]
                      ELSE [ok |-> FALSE, error |-> "invalid token"]

\* the header of a client that logged in at hour 0 as the stored identity id
BearerOf(id) ==
    LET u == CHOOSE u \in users : u.id = id
    IN  <<W("Bearer"), SP,
          jwt_sign(Claims(u.id, u.username, u.email), JWT_SECRET, 0)>>

\* a plausible slip: the route group is registered without the middleware
ProtectedRoutes_none == {}

\* main: api := router.Group("/api/tasks"); api.Use(middleware.AuthMiddleware(db))
ProtectedRoutes ==
    {"POST /api/tasks", "GET /api/tasks", "GET /api/tasks/:id",
     "PUT /api/tasks/:id", "DELETE /api/tasks/:id",
     "GET /api/tasks/stats/summary"}

\* a plausible slip: the status is stored as the client sent it
isValidStatus_any(status) == TRUE

isValidStatus(status) ==
    status \in {"pending", "in_progress", "completed", "cancelled"}

isValidPriority(priority) ==
    priority \in {"low", "medium", "high", "urgent"}

\* nil in a *string field of the request
Nil == "<nil>"
StatusInputs == {Nil, "completed", "archived"}
PriorityInputs == {Nil, "urgent", "asap"}

NoResp == [status |-> 0, error |-> "", userID |-> ""]

\* a client sends POST /api/tasks with a token the authority signed for
\* identity id
NewRequest(id) ==
    /\ tasksPc = "serving"
    /\ req = None
    /\ id \in StoreIds
    /\ taskSeq < MaxTasks
    /\ req' = [route |-> "POST /api/tasks", step |-> "auth", token |-> id,
               userID |-> "", header |-> BearerOf(id), at |-> 0]
    /\ UNCHANGED <<taskResp, notFoundFor>>
    /\ UNCHANGED <<authVars, brokerVars, bootVars, consumerVars, dbVars>>

\* the middleware chain in front of the handler
Authorize ==
    /\ req # None
    /\ req.step = "auth"
    /\ IF req.route \in ProtectedRoutes
       THEN LET v == TokenValidator(req.header, JWT_SECRET, req.at)
            IN  IF ~v.ok
                THEN /\ req' = None
                     /\ taskResp' = [status |-> 401, error |-> v.error,
                                     userID |-> ""]
                     /\ UNCHANGED notFoundFor
                ELSE IF AuthMiddlewareOutcome(tasks_users, v.claims.userId)
                            = "owner_not_found"
                THEN /\ req' = None
                     /\ taskResp' = [status |-> 404, error |-> "owner not found",
                                     userID |-> v.claims.userId]
                     /\ notFoundFor' = notFoundFor \cup {v.claims.userId}
                ELSE /\ req' = [req EXCEPT !.step = "handler",
                                           !.userID = v.claims.userId]
                     /\ UNCHANGED <<taskResp, notFoundFor>>
       ELSE /\ req' = [req EXCEPT !.step = "handler"]
            /\ UNCHANGED <<taskResp, notFoundFor>>
    /\ UNCHANGED <<authVars, brokerVars, bootVars, consumerVars, dbVars>>

\* the defaults CreateTask gives a missing status and priority
StatusOf(body) == IF body.status # Nil THEN body.status ELSE "pending"
PriorityOf(body) == IF body.priority # Nil THEN body.priority ELSE "medium"

\* CreateTask's control flow before the INSERT: c.MustGet("userID") panics
\* when no middleware set it (gin.Recovery answers 500), a body that does not
\* bind is 400, an invalid status or priority is 400
CreateTaskCheck(userID, body) ==
    IF userID = "" THEN [code |-> 500, error |-> "panic"]
    ELSE IF ~body.bindOk THEN [code |-> 400, error |-> "bind"]
    ELSE IF ~isValidStatus(StatusOf(body))
    THEN [code |-> 400, error |-> "Invalid status"]
    ELSE IF ~isValidPriority(PriorityOf(body))
    THEN [code |-> 400, error |-> "Invalid priority"]
    ELSE [code |-> 0, error |-> ""]

\* a plausible slip: the context value is read with c.Get and a failed type
\* assertion is ignored, which leaves the zero UUID
TaskOwner_zero(userID) == NilUUID

\* userID := c.MustGet("userID").(uuid.UUID), the user_id the INSERT binds
TaskOwner(userID) == userID

\* CreateTask(c) with the request body `body`; dbErr: the INSERT fails
CreateTask(body, dbErr) ==
    /\ req # None
    /\ req.step = "handler"
    /\ req.route = "POST /api/tasks"
    /\ LET check == CreateTaskCheck(req.userID, body)
           task  == [id |-> taskSeq + 1, user_id |-> TaskOwner(req.userID),
                     status |-> StatusOf(body), priority |-> PriorityOf(body),
                     created_at |-> now, updated_at |-> now]
       IN  /\ dbErr => (check.code = 0 /\ dbFails < MaxDbFail)
           /\ IF check.code # 0
              THEN /\ taskResp' = [status |-> check.code, error |-> check.error,
                                   userID |-> req.token]
                   /\ UNCHANGED <<tasks, taskSeq, dbFails>>
              ELSE IF dbErr
              THEN /\ taskResp' = [status |-> 500, error |-> "Failed to create task",
                                   userID |-> req.token]
                   /\ dbFails' = dbFails + 1
                   /\ UNCHANGED <<tasks, taskSeq>>
              ELSE /\ taskResp' = [status |-> 201, error |-> "", userID |-> req.token]
                   /\ tasks' = tasks \cup {task}
                   /\ taskSeq' = taskSeq + 1
                   /\ UNCHANGED dbFails
    /\ req' = None
    /\ UNCHANGED <<tasks_users, now, notFoundFor>>
    /\ UNCHANGED <<authVars, brokerVars, bootVars, consumerVars>>

Bodies ==
    [bindOk : BOOLEAN, status : StatusInputs, priority : PriorityInputs]

(***************************************************************************)
(* tasks service: GetTasks, GetTask, UpdateTask, DeleteTask, GetStats      *)
(***************************************************************************)
\* the tasks database as the handlers' statements see it
Database == [tasks |-> tasks, tasks_users |-> tasks_users]

\* a :id path parameter uuid.Parse rejects
BadTaskId == 0
TaskIdInputs == 0..MaxTasks

IdRoutes == {"GET /api/tasks/:id", "PUT /api/tasks/:id", "DELETE /api/tasks/:id"}
ListRoutes == {"GET /api/tasks", "GET /api/tasks/stats/summary"}

\* a client sends one of the other requests of the group with a token the
\* authority signed for identity id
NewTaskRequest(route, id, taskID) ==
    /\ tasksPc = "serving"
    /\ req = None
    /\ id \in StoreIds
    /\ route \in IdRoutes \cup ListRoutes
    /\ taskID = BadTaskId \/ route \in IdRoutes
    /\ req' = [route |-> route, step |-> "auth", token |-> id, userID |-> "",
               taskID |-> taskID, header |-> BearerOf(id), at |-> 0]
    /\ taskResp' = NoResp
    /\ UNCHANGED notFoundFor
    /\ UNCHANGED <<authVars, brokerVars, bootVars, consumerVars, dbVars>>

\* a client sends GET /api/tasks/stats/summary with any header, at hour t
NewHeaderRequest(authHeader, t) ==
    /\ tasksPc = "serving"
    /\ req = None
    /\ LET v == jwt_verify(Split(authHeader, SP)[Len(Split(authHeader, SP))],
                           JWT_SECRET, t)
       IN  req' = [route |-> "GET /api/tasks/stats/summary", step |-> "auth",
                   token |-> IF v.ok THEN v.decoded.userId ELSE "",
                   userID |-> "", taskID |-> BadTaskId,
                   header |-> authHeader, at |-> t]
    /\ taskResp' = NoResp
    /\ UNCHANGED notFoundFor
    /\ UNCHANGED <<authVars, brokerVars, bootVars, consumerVars, dbVars>>

\* the response of one of these handlers: what the caller is shown
Answer(code, error, seen, total) ==
    [status |-> code, error |-> error, userID |-> req.token, op |-> req.route,
     taskID |-> req.taskID, seen |-> seen, total |-> total]

\* the request reaches the handler of route; the handler answers it
Serves(route) ==
    /\ req # None
    /\ req.step = "handler"
    /\ req.route = route
    /\ req' = None
    /\ UNCHANGED notFoundFor
    /\ UNCHANGED <<authVars, brokerVars, bootVars, consumerVars>>

\* a plausible slip: the router is built without gin.Recovery(), so a panic
\* in a handler's goroutine ends the process
Recovery_absent(pc) == "fatal"

\* router.Use(gin.Recovery()): a panic in a handler is recovered, the request
\* is answered 500 and the process stays where it was
Recovery(pc) == pc

\* a handler that may panic serves a request on `route`
ServesRecovering(route, panicked) ==
    /\ req # None
    /\ req.step = "handler"
    /\ req.route = route
    /\ req' = None
    /\ tasksPc' = IF panicked THEN Recovery(tasksPc) ELSE tasksPc
    /\ UNCHANGED notFoundFor
    /\ UNCHANGED <<environ, restarts, val, maxRetries, i, attempts, slept, opened, connLost>>
    /\ UNCHANGED <<authVars, brokerVars, consumerVars>>

\* a failing statement is one of the storage failures of the run
Fails(dbErr) ==
    /\ dbErr => dbFails < MaxDbFail
    /\ dbFails' = IF dbErr THEN dbFails + 1 ELSE dbFails

\* SELECT * FROM tasks WHERE user_id = $1 [AND status = ..] [AND priority = ..]
SelectTasks(db, userID, status, priority) ==
    {t \in db.tasks : /\ t.user_id = userID
                      /\ status # "" => t.status = status
                      /\ priority # "" => t.priority = priority}

\* filters.Limit when the query has none
DefaultLimit == 10

\* LIMIT and OFFSET over the rows of a user who has no more than one page
Paginate(rows, page) ==
    LET p == IF page <= 0 THEN 1 ELSE page
    IN  IF (p - 1) * DefaultLimit < Cardinality(rows) THEN rows ELSE {}

FilterInputs == [bindOk : BOOLEAN, status : {"", "completed"},
                 priority : {"", "urgent"}, page : 0..2]

\* GetTasks(c) with the query string filters; dbErr: the Select fails
GetTasks(filters, dbErr) ==
    /\ Serves("GET /api/tasks")
    /\ Fails(dbErr)
    /\ dbErr => (req.userID # "" /\ filters.bindOk)
    /\ LET rows == SelectTasks(Database, req.userID, filters.status, filters.priority)
       IN  taskResp' =
             IF req.userID = "" THEN Answer(500, "panic", {}, 0)
             ELSE IF ~filters.bindOk THEN Answer(400, "bind", {}, 0)
             ELSE IF dbErr THEN Answer(500, "Failed to fetch tasks", {}, 0)
             ELSE Answer(200, "", Paginate(rows, filters.page), Cardinality(rows))
    /\ UNCHANGED <<tasks_users, tasks, taskSeq, now>>

\* a plausible slip: the row is selected by its id alone
SelectTask_unscoped(db, taskID, userID) ==
    {t \in db.tasks : t.id = taskID}

\* SELECT * FROM tasks WHERE id = $1 AND user_id = $2
SelectTask(db, taskID, userID) ==
    {t \in db.tasks : t.id = taskID /\ t.user_id = userID}

\* GetTask(c); dbErr: the Get fails with an error other than ErrNoRows
GetTask(dbErr) ==
    /\ Serves("GET /api/tasks/:id")
    /\ Fails(dbErr)
    /\ dbErr => (req.userID # "" /\ req.taskID # BadTaskId)
    /\ LET rows == SelectTask(Database, req.taskID, req.userID)
       IN  taskResp' =
             IF req.userID = "" THEN Answer(500, "panic", {}, 0)
             ELSE IF req.taskID = BadTaskId THEN Answer(400, "Invalid task ID", {}, 0)
             ELSE IF dbErr THEN Answer(500, "Failed to fetch task", {}, 0)
             ELSE IF rows = {} THEN Answer(404, "Task not found", {}, 0)
             ELSE Answer(200, "", rows, 0)
    /\ UNCHANGED <<tasks_users, tasks, taskSeq, now>>

UpdateBodies ==
    [bindOk : BOOLEAN, status : StatusInputs, priority : PriorityInputs,
     other : BOOLEAN]

\* SELECT EXISTS(SELECT 1 FROM tasks WHERE id = $1 AND user_id = $2)
TaskExists(db, taskID, userID) ==
    \E t \in db.tasks : t.id = taskID /\ t.user_id = userID

\* a plausible slip: the handler also stamps the owner's cache row
UpdateExec_touchOwner(db, taskID, userID, body, t) ==
    [tasks |->
        {IF r.id = taskID /\ r.user_id = userID
         THEN [r EXCEPT !.updated_at = t] ELSE r : r \in db.tasks},
     tasks_users |->
        {IF u.user_id = userID
         THEN [u EXCEPT !.updated_at = t + 1] ELSE u : u \in db.tasks_users}]

\* a plausible slip: the UPDATE writes every column, with the creation
\* defaults for the fields the request left out
UpdateExec_fullRow(db, taskID, userID, body, t) ==
    [tasks |->
        {IF r.id = taskID /\ r.user_id = userID
         THEN [r EXCEPT !.status = IF body.status # Nil THEN body.status ELSE "pending",
                        !.priority = IF body.priority # Nil THEN body.priority ELSE "medium",
                        !.updated_at = t]
         ELSE r : r \in db.tasks},
     tasks_users |-> db.tasks_users]

\* UPDATE tasks SET <the fields present>, updated_at = $n
\* WHERE id = $i AND user_id = $j; body.other stands for title, description
\* and due_date, columns the rows of the model do not carry
UpdateExec(db, taskID, userID, body, t) ==
    [tasks |->
        {IF r.id = taskID /\ r.user_id = userID
         THEN [r EXCEPT !.status = IF body.status # Nil THEN body.status ELSE @,
                        !.priority = IF body.priority # Nil THEN body.priority ELSE @,
                        !.updated_at = t]
         ELSE r : r \in db.tasks},
     tasks_users |-> db.tasks_users]

\* a plausible slip: each field is written as soon as it is validated, so a
\* valid status is stored before an invalid priority is rejected
UpdateTaskCheck_fieldByField(db, userID, taskID, body, failAt) ==
    IF userID = "" THEN [code |-> 500, error |-> "panic", at |-> "get", apply |-> FALSE]
    ELSE IF taskID = BadTaskId
    THEN [code |-> 400, error |-> "Invalid task ID", at |-> "parse", apply |-> FALSE]
    ELSE IF ~body.bindOk
    THEN [code |-> 400, error |-> "bind", at |-> "bind", apply |-> FALSE]
    ELSE IF failAt = "exists" \/ ~TaskExists(db, taskID, userID)
    THEN [code |-> 404, error |-> "Task not found", at |-> "exists", apply |-> FALSE]
    ELSE IF body.status # Nil /\ ~isValidStatus(body.status)
    THEN [code |-> 400, error |-> "Invalid status", at |-> "status", apply |-> FALSE]
    ELSE IF body.priority # Nil /\ ~isValidPriority(body.priority)
    THEN [code |-> 400, error |-> "Invalid priority", at |-> "priority",
          apply |-> body.status # Nil]
    ELSE IF body.status = Nil /\ body.priority = Nil /\ ~body.other
    THEN [code |-> 400, error |-> "No fields to update", at |-> "fields", apply |-> FALSE]
    ELSE IF failAt = "exec"
    THEN [code |-> 500, error |-> "Failed to update task", at |-> "exec", apply |-> FALSE]
    ELSE IF failAt = "fetch"
    THEN [code |-> 500, error |-> "Failed to fetch updated task", at |-> "fetch",
          apply |-> TRUE]
    ELSE [code |-> 200, error |-> "", at |-> "end", apply |-> TRUE]

\* UpdateTask's control flow; failAt: the statement that fails, if any.
\* at: where the handler returns; apply: the UPDATE has run
UpdateTaskCheck(db, userID, taskID, body, failAt) ==
    IF userID = "" THEN [code |-> 500, error |-> "panic", at |-> "get", apply |-> FALSE]
    ELSE IF taskID = BadTaskId
    THEN [code |-> 400, error |-> "Invalid task ID", at |-> "parse", apply |-> FALSE]
    ELSE IF ~body.bindOk
    THEN [code |-> 400, error |-> "bind", at |-> "bind", apply |-> FALSE]
    ELSE IF failAt = "exists" \/ ~TaskExists(db, taskID, userID)
    THEN [code |-> 404, error |-> "Task not found", at |-> "exists", apply |-> FALSE]
    ELSE IF body.status # Nil /\ ~isValidStatus(body.status)
    THEN [code |-> 400, error |-> "Invalid status", at |-> "status", apply |-> FALSE]
    ELSE IF body.priority # Nil /\ ~isValidPriority(body.priority)
    THEN [code |-> 400, error |-> "Invalid priority", at |-> "priority", apply |-> FALSE]
    ELSE IF body.status = Nil /\ body.priority = Nil /\ ~body.other
    THEN [code |-> 400, error |-> "No fields to update", at |-> "fields", apply |-> FALSE]
    ELSE IF failAt = "exec"
    THEN [code |-> 500, error |-> "Failed to update task", at |-> "exec", apply |-> FALSE]
    ELSE IF failAt = "fetch"
    THEN [code |-> 500, error |-> "Failed to fetch updated task", at |-> "fetch",
          apply |-> TRUE]
    ELSE [code |-> 200, error |-> "", at |-> "end", apply |-> TRUE]

\* UpdateTask(c)
UpdateTask(body, failAt) ==
    /\ Serves("PUT /api/tasks/:id")
    /\ LET out == UpdateTaskCheck(Database, req.userID, req.taskID, body, failAt)
           db  == IF out.apply
                  THEN UpdateExec(Database, req.taskID, req.userID, body, now)
                  ELSE Database
       IN  /\ failAt # "none" => (out.at = failAt /\ dbFails < MaxDbFail)
           /\ dbFails' = IF failAt # "none" THEN dbFails + 1 ELSE dbFails
           /\ tasks' = db.tasks
           /\ tasks_users' = db.tasks_users
           \* the updated task is fetched by its id alone
           /\ taskResp' = Answer(out.code, out.error,
                                 IF out.code = 200
                                 THEN {t \in db.tasks : t.id = req.taskID} ELSE {},
                                 0)
    /\ UNCHANGED <<taskSeq, now>>

\* a plausible slip: the row is deleted by its id alone
DeleteExec_unscoped(db, taskID, userID) ==
    [db |-> [tasks |-> {t \in db.tasks : t.id # taskID},
             tasks_users |-> db.tasks_users],
     rows |-> Cardinality({t \in db.tasks : t.id = taskID})]

\* a plausible slip: the delete also clears the caller's row of the cache
DeleteExec_purgeOwner(db, taskID, userID) ==
    [db |-> [tasks |-> {t \in db.tasks : ~(t.id = taskID /\ t.user_id = userID)},
             tasks_users |-> {u \in db.tasks_users : u.user_id # userID}],
     rows |-> Cardinality({t \in db.tasks : t.id = taskID /\ t.user_id = userID})]

\* a plausible slip: RowsAffected is not looked at, every delete counts as one
DeleteExec_noRowCount(db, taskID, userID) ==
    [db |-> [tasks |-> {t \in db.tasks : ~(t.id = taskID /\ t.user_id = userID)},
             tasks_users |-> db.tasks_users],
     rows |-> 1]

\* DELETE FROM tasks WHERE id = $1 AND user_id = $2, and RowsAffected
DeleteExec(db, taskID, userID) ==
    [db |-> [tasks |-> {t \in db.tasks : ~(t.id = taskID /\ t.user_id = userID)},
             tasks_users |-> db.tasks_users],
     rows |-> Cardinality({t \in db.tasks : t.id = taskID /\ t.user_id = userID})]

\* DeleteTask(c); dbErr: the Exec fails
DeleteTask(dbErr) ==
    /\ Serves("DELETE /api/tasks/:id")
    /\ Fails(dbErr)
    /\ dbErr => (req.userID # "" /\ req.taskID # BadTaskId)
    /\ LET runs == req.userID # "" /\ req.taskID # BadTaskId /\ ~dbErr
           exec == IF runs THEN DeleteExec(Database, req.taskID, req.userID)
                   ELSE [db |-> Database, rows |-> 0]
       IN  /\ tasks' = exec.db.tasks
           /\ tasks_users' = exec.db.tasks_users
           /\ taskResp' =
                 IF req.userID = "" THEN Answer(500, "panic", {}, 0)
                 ELSE IF req.taskID = BadTaskId
                 THEN Answer(400, "Invalid task ID", {}, 0)
                 ELSE IF dbErr THEN Answer(500, "Failed to delete task", {}, 0)
                 ELSE IF exec.rows = 0 THEN Answer(404, "Task not found", {}, 0)
                 ELSE Answer(200, "", {}, 0)
    /\ UNCHANGED <<taskSeq, now>>

\* SELECT col, COUNT(*) FROM tasks WHERE user_id = $1 GROUP BY col
GroupCount(db, userID, col) ==
    LET rows == {t \in db.tasks : t.user_id = userID}
    IN  {<<v, Cardinality({t \in rows : t[col] = v})>> : v \in {t[col] : t \in rows}}

\* GetStats(c): the errors of its statements are dropped, so on a failing
\* database rows is nil and rows.Next() panics (gin.Recovery answers 500)
GetStats(dbErr) ==
    /\ ServesRecovering("GET /api/tasks/stats/summary", req.userID = "" \/ dbErr)
    /\ Fails(dbErr)
    /\ dbErr => req.userID # ""
    /\ taskResp' =
          IF req.userID = "" \/ dbErr
          THEN Answer(500, "panic", {}, 0)
          ELSE [status |-> 200, error |-> "", userID |-> req.token,
                op |-> req.route, taskID |-> req.taskID, seen |-> {},
                total |-> Cardinality(SelectTasks(Database, req.userID, "", "")),
                byStatus |-> GroupCount(Database, req.userID, "status"),
                byPriority |-> GroupCount(Database, req.userID, "priority")]
    /\ UNCHANGED <<tasks_users, tasks, taskSeq, now>>

(***************************************************************************)
(* The system.                                                             *)
(***************************************************************************)

Init ==
    /\ authState = "starting"
    /\ users = {}
    /\ channel = "null"
    /\ reconnects = 0
    /\ authResp = [status |-> 0, id |-> "", publish |-> "none"]
    /\ sent = None
    /\ brokerUp \in BOOLEAN
    /\ bindings = {}
    /\ declared = {}
    /\ queue = <<>>
    /\ published = 0
    /\ tasksPc = "main"
    /\ environ = NoEnviron
    /\ restarts = 0
    /\ val = <<>>
    /\ maxRetries = 0
    /\ i = 0
    /\ attempts = 0
    /\ slept = <<>>
    /\ opened = {}
    /\ connLost = FALSE
    /\ consumerPc = "off"
    /\ inflight = None
    /\ handled = <<>>
    /\ peer = [pc |-> "off", inflight |-> None]
    /\ tasks_users = {}
    /\ tasks = {}
    /\ taskSeq = 0
    /\ now = 0
    /\ dbFails = 0
    /\ req = None
    /\ taskResp = NoResp
    /\ notFoundFor = {}

\* the authority: start-up, reconnects, registrations
AuthNext ==
    \/ AuthStart
    \/ ReconnectTimer
    \/ PublisherConnectionClosed
    \/ \E username \in Usernames, email \in Emails, dbOk \in BOOLEAN :
          Register(username, email, dbOk)

\* logins with a right or a wrong password, for a known or an unknown email
LoginNext ==
    \E email \in Emails, password \in LoginPasswords, t \in Hours :
        Login(email, password, t)

\* requests with any header at the task API's middleware, and the handler
\* behind it
GateNext ==
    \/ \E authHeader \in HeaderInputs, t \in Hours : NewHeaderRequest(authHeader, t)
    \/ Authorize
    \/ \E dbErr \in BOOLEAN : GetStats(dbErr)

\* token verifications at the authority
VerifyNext ==
    \E authHeader \in HeaderInputs, t \in Hours : Verify(authHeader, t)

\* the tasks service from main to the listening server
BootNext ==
    \/ BrokerComesUp
    \/ \E env \in EnvValues : NewConsumerBegin(env)
    \/ Dial
    \/ Declare
    \/ Start
    \/ Listen

\* the consumer goroutine
ConsumerNext ==
    \/ Receive
    \/ \E dbErr \in BOOLEAN, pos \in 0..MaxMsgs : handleMessage(dbErr, pos)

\* the task API and its clients
ApiNext ==
    \/ \E id \in Ids : NewRequest(id)
    \/ Authorize
    \/ \E body \in Bodies, dbErr \in BOOLEAN : CreateTask(body, dbErr)

\* the end of the consume loop
LoopEndNext == LoopCancelled \/ LoopClosed

\* the shutdown sequence of main
ShutdownNext == Shutdown \/ Cancel \/ DeferredClose \/ Exit

\* the other operations of the task API
TaskOpsNext ==
    \/ \E route \in IdRoutes \cup ListRoutes, id \in Ids, taskID \in TaskIdInputs :
          NewTaskRequest(route, id, taskID)
    \/ \E filters \in FilterInputs, dbErr \in BOOLEAN : GetTasks(filters, dbErr)
    \/ \E dbErr \in BOOLEAN : GetTask(dbErr)
    \/ \E body \in UpdateBodies, failAt \in {"none", "exists", "exec", "fetch"} :
          UpdateTask(body, failAt)
    \/ \E dbErr \in BOOLEAN : DeleteTask(dbErr)
    \/ \E dbErr \in BOOLEAN : GetStats(dbErr)

\* both identities are cached and the consumer is idle
Synced == CacheIds = Ids /\ queue = <<>> /\ inflight = None

\* two registrations that reach the cache without a failure on the way
QuietSyncNext ==
    \/ AuthStart
    \/ users = {} /\ Register("alice", "a@x.com", TRUE)
    \/ users # {} /\ Register("bob", "b@x.com", TRUE)
    \/ NewConsumerBegin(EnvUnset)
    \/ Dial
    \/ Declare
    \/ Start
    \/ Listen
    \/ Receive
    \/ handleMessage(FALSE, 0)

\* runs of the tasks service one after the other, each started with the
\* broker's URL and the last one left running, while one identity registers
RestartNext ==
    \/ AuthStart
    \/ users = {} /\ Register("alice", "a@x.com", TRUE)
    \/ BrokerComesUp
    \/ \E e \in Environs \ {NoEnviron} : NewConsumerIn(e, EnvUnset)
    \/ Dial
    \/ Declare
    \/ Start
    \/ Listen
    \/ Receive
    \/ \E dbErr \in BOOLEAN : handleMessage(dbErr, 0)
    \/ LoopCancelled
    \/ restarts < MaxRestarts /\ Shutdown
    \/ Cancel
    \/ DeferredClose
    \/ Exit
    \/ Restart

\* the tasks service started in any environment, under a publishing authority
DefaultsNext ==
    \/ AuthStart
    \/ users = {} /\ Register("alice", "a@x.com", TRUE)
    \/ BrokerComesUp
    \/ \E e \in Environs : NewConsumerIn(e, EnvUnset)
    \/ Dial
    \/ Declare
    \/ Start
    \/ Listen
    \/ Receive
    \/ \E dbErr \in BOOLEAN : handleMessage(dbErr, 0)

\* two instances of the tasks service consuming facts about one identity
ScaleNext ==
    \/ \E m \in ScaleMessages : ExternalPublish(m)
    \/ BrokerComesUp
    \/ NewConsumerBegin(EnvUnset)
    \/ Dial
    \/ Declare
    \/ Start
    \/ Listen
    \/ Receive
    \/ \E dbErr \in BOOLEAN, pos \in 0..MaxMsgs : handleMessage(dbErr, pos)
    \/ PeerStart
    \/ PeerReceive
    \/ \E dbErr \in BOOLEAN, pos \in 0..MaxMsgs : PeerHandleMessage(dbErr, pos)

\* the consumer fed with messages that are no identity facts of the authority
StrayNext ==
    \/ \E m \in StrayMessages : ExternalPublish(m)
    \/ \E m \in DirectMessages : DirectPublish(m)
    \/ BrokerComesUp
    \/ NewConsumerBegin(EnvUnset)
    \/ Dial
    \/ Declare
    \/ Start
    \/ Listen
    \/ Receive
    \/ \E dbErr \in BOOLEAN, pos \in 0..MaxMsgs : handleMessage(dbErr, pos)

\* the tasks service starting while a call of NewConsumer can fail
FailNext ==
    \/ \E m \in LifecycleMessages : ExternalPublish(m)
    \/ BrokerComesUp
    \/ NewConsumerBegin(EnvUnset)
    \/ Dial
    \/ Declare
    \/ \E step \in {NewConsumerSteps[k] : k \in DOMAIN NewConsumerSteps} :
          DeclareFails(step)
    \/ Start
    \/ Listen
    \/ Receive
    \/ \E dbErr \in BOOLEAN, pos \in 0..MaxMsgs : handleMessage(dbErr, pos)

\* other producers on the exchange
ProducerNext == \E m \in ExternalMessages : ExternalPublish(m)

Next == AuthNext \/ ProducerNext \/ BootNext \/ ConsumerNext \/ ApiNext

LifecycleProducerNext == \E m \in LifecycleMessages : ExternalPublish(m)

\* the whole system
Spec == Init /\ [][Next]_vars

\* the consumer fed by arbitrary producers; the authority and the task API's
\* clients are silent
ConsumerSpec == Init /\ [][ProducerNext \/ BootNext \/ ConsumerNext]_vars

\* registration to cache: the authority is the only producer and the task
\* API's clients are silent
SyncSpec == Init /\ [][AuthNext \/ BootNext \/ ConsumerNext]_vars

\* registration to task creation: the authority is the only producer
ApiSpec == Init /\ [][AuthNext \/ BootNext \/ ConsumerNext \/ ApiNext]_vars

\* the tasks service from main to a consumer that handles one fact and one
\* body that does not decode
BootSpec == Init /\ [][LifecycleProducerNext \/ BootNext \/ ConsumerNext]_vars

\* the consumer from its start to the end of the process, with connection
\* loss
LifecycleSpec ==
    Init /\ [][LifecycleProducerNext \/ BootNext \/ ConsumerNext \/ LoopEndNext
                \/ ShutdownNext \/ ConnectionLost]_vars

\* registration to cache while the consumer's connection can close
DisconnectSpec ==
    Init /\ [][AuthNext \/ BootNext \/ ConsumerNext
                \/ LoopClosed \/ ConnectionLost]_vars

\* the authority's registrations and logins, and the tasks service binding
\* its queue
AuthSpec == Init /\ [][AuthNext \/ LoginNext \/ BootNext]_vars

\* token verification at the authority and at the task API while identities
\* register and reach the cache
VerifySpec == Init /\ [][QuietSyncNext \/ VerifyNext \/ GateNext]_vars

\* token verification at the authority while identities register and reach
\* the cache
StatelessSpec == Init /\ [][QuietSyncNext \/ VerifyNext]_vars

\* the tasks service started with or without its environment variables
DefaultsSpec == Init /\ [][DefaultsNext]_vars

\* start-up with failing calls in NewConsumer
FailSpec == Init /\ [][FailNext]_vars

\* the consumer and producers of other messages
StraySpec == Init /\ [][StrayNext]_vars

\* two consumer instances on one queue
ScaleSpec == Init /\ [][ScaleNext]_vars

\* the tasks service stopped and started again under a publishing authority
RestartSpec == Init /\ [][RestartNext]_vars

\* the task API of two cached identities
TaskSpec ==
    Init /\ [][QuietSyncNext \/ (Synced /\ (ApiNext \/ TaskOpsNext))]_vars

\* the task API and the registration endpoint with their failures
ErrorSpec ==
    Init /\ [][QuietSyncNext
                \/ (users # {} /\ \E dbOk \in BOOLEAN :
                                     Register("alice", "a@x.com", dbOk))
                \/ (Synced /\ (ApiNext \/ TaskOpsNext))]_vars

\* the consumer under fair scheduling of its goroutines: main runs on to the
\* listening server and the consume loop takes the next step it can take
ConsumerFairness ==
    /\ WF_vars(\E env \in EnvValues : NewConsumerBegin(env))
    /\ WF_vars(Dial)
    /\ WF_vars(Declare)
    /\ WF_vars(Start)
    /\ WF_vars(Listen)
    /\ WF_vars(Receive)
    /\ WF_vars(\E dbErr \in BOOLEAN, pos \in 0..MaxMsgs : handleMessage(dbErr, pos))

\* the authority under fair scheduling of its event loop
AuthFairness ==
    /\ WF_vars(AuthStart)
    /\ WF_vars(ReconnectTimer)

LiveConsumerSpec == ConsumerSpec /\ ConsumerFairness

LiveSyncSpec == SyncSpec /\ ConsumerFairness /\ AuthFairness

LiveBootSpec == BootSpec /\ ConsumerFairness

LiveDisconnectSpec ==
    DisconnectSpec /\ ConsumerFairness /\ AuthFairness /\ WF_vars(LoopClosed)

\* main runs on after the signal, the process is started again, and the
\* broker comes up
LiveRestartSpec ==
    /\ RestartSpec
    /\ ConsumerFairness
    /\ AuthFairness
    /\ WF_vars(\E e \in Environs \ {NoEnviron} : NewConsumerIn(e, EnvUnset))
    /\ WF_vars(Cancel)
    /\ WF_vars(DeferredClose)
    /\ WF_vars(Exit)
    /\ WF_vars(Restart)

(***************************************************************************)
(* Properties.                                                             *)
(***************************************************************************)
\* the last handleMessage call; tasks_users changes in handleMessage only, so
\* in every state the cache is as that call left it
Handled == handled # <<>>
Last == handled[Len(handled)]
Decodes(m) == Unmarshal(m.body).ok
EventOf(m) == Unmarshal(m.body).event
IsFact(m) == Decodes(m) /\ m.rk \in CacheKeys

\* the cache holds exactly one row for the event's id, with its username and
\* email
OneRowOf(event) ==
    /\ Cardinality(RowsFor(event.UserID)) = 1
    /\ \A r \in RowsFor(event.UserID) :
          r.username = event.Username /\ r.email = event.Email

InQueue(mid) == \E k \in DOMAIN queue : queue[k].mid = mid
InFlight(mid) == inflight # None /\ inflight.mid = mid

\* C1: a decodable user.created / user.updated delivery is acknowledged only
\* when its upsert returned success (the row is then in the cache); when the
\* upsert failed, the delivery is rejected with requeue, is back in the queue
\* and is not acknowledged.
C1_AckOnlyAfterUpsert ==
    (Handled /\ IsFact(Last.msg)) =>
        /\ Last.upsert \in {"ok", "err"}
        /\ Last.settle = "ack" =>
              (Last.upsert = "ok" /\ RowsFor(EventOf(Last.msg).UserID) # {})
        /\ Last.upsert = "err" =>
              /\ Last.settle = "nack_requeue"
              /\ Last.msg.mid \notin acked
              /\ InQueue(Last.msg.mid) \/ InFlight(Last.msg.mid)

C1_Witness ==
    /\ Len(handled) >= 2
    /\ handled[1].upsert = "err" /\ handled[1].settle = "nack_requeue"
    /\ Last.msg = handled[1].msg
    /\ Last.upsert = "ok" /\ Last.settle = "ack"

\* C2: a delivery whose upsert failed is eventually acknowledged on a
\* redelivery whose upsert succeeds, and the cache then holds exactly one row
\* for its id, with the fact's username and email.
FailedUpsert(mid) == Handled /\ Last.msg.mid = mid /\ Last.upsert = "err"
AckedAndApplied(mid) ==
    /\ Handled
    /\ Last.msg.mid = mid
    /\ Last.upsert = "ok"
    /\ Last.settle = "ack"
    /\ OneRowOf(EventOf(Last.msg))

C2_RedeliveryApplies ==
    \A mid \in 1..MaxMsgs : FailedUpsert(mid) ~> AckedAndApplied(mid)

C2_Witness ==
    \E k \in DOMAIN handled :
        /\ k < Len(handled)
        /\ handled[k].upsert = "err"
        /\ handled[k].msg.mid = Last.msg.mid
        /\ AckedAndApplied(Last.msg.mid)
        /\ Last.before # {}

\* C3: a delivery whose body does not decode is rejected without requeue and
\* reaches cacheUser never; it leaves the cache and the queue behind it as
\* they were; once rejected it is never in the queue or in flight again; and
\* every message in the queue is eventually settled by the consumer, so the
\* ones behind a poison message are still handled.
PoisonRejected ==
    \A k \in DOMAIN handled :
        ~Decodes(handled[k].msg) =>
            /\ handled[k].settle = "nack_drop"
            /\ handled[k].upsert = "none"

NeverRedelivered ==
    \A mid \in dropped : ~InQueue(mid) /\ ~InFlight(mid)

PoisonFrame ==
    (consumerPc = "handling" /\ ~Decodes(inflight) /\ handled' # handled) =>
        /\ tasks_users' = tasks_users
        /\ queue' = queue

C3_PoisonIsolated ==
    /\ [](PoisonRejected /\ NeverRedelivered)
    /\ [][PoisonFrame]_vars
    /\ \A mid \in 1..MaxMsgs :
          InQueue(mid) ~> (mid \in acked \cup dropped)

C3_Witness ==
    /\ Len(handled) >= 2
    /\ ~Decodes(handled[1].msg)
    /\ handled[1].settle = "nack_drop"
    /\ IsFact(Last.msg)
    /\ Last.msg.mid > handled[1].msg.mid
    /\ Last.settle = "ack"
    /\ OneRowOf(EventOf(Last.msg))

\* C4: when a fact is applied to a cache that already holds its id with the
\* same username and email (the same fact applied before), the cache holds
\* exactly one row for the id afterwards: the row it held, with updated_at
\* moved forward to the time of this application and created_at as it was.
SameFactAgain ==
    /\ Handled
    /\ Last.upsert = "ok"
    /\ \E r \in Last.before :
          r.username = EventOf(Last.msg).Username /\ r.email = EventOf(Last.msg).Email

C4_IdempotentUpsert ==
    SameFactAgain =>
        \E r \in Last.before :
            /\ Last.before = {r}
            /\ RowsFor(EventOf(Last.msg).UserID) = {[r EXCEPT !.updated_at = Last.at]}
            /\ Last.at > r.updated_at

C4_Witness ==
    /\ SameFactAgain
    /\ Len(handled) = 2
    /\ handled[1].msg.body = Last.msg.body
    /\ handled[1].msg.rk = Last.msg.rk
    /\ handled[1].upsert = "ok"
    /\ \A r \in RowsFor(EventOf(Last.msg).UserID) : r.updated_at > r.created_at

\* C5: on a healthy database the upsert of a fact never errors, whichever of
\* user.created and user.updated carries it and whether the id is cached or
\* not, and afterwards the cache holds exactly one row for the id, with the
\* username and email of this, the last applied, fact.
C5_LastWriteWins ==
    (Handled /\ IsFact(Last.msg) /\ Last.storage = "healthy") =>
        /\ Last.upsert = "ok"
        /\ Last.settle = "ack"
        /\ OneRowOf(EventOf(Last.msg))

\* user.updated applied first, a different user.created for the same id after it
C5_Witness ==
    /\ Len(handled) = 2
    /\ handled[1].msg.rk = "user.updated" /\ handled[1].upsert = "ok"
    /\ Last.msg.rk = "user.created" /\ Last.upsert = "ok"
    /\ EventOf(handled[1].msg).UserID = EventOf(Last.msg).UserID
    /\ EventOf(handled[1].msg).Username # EventOf(Last.msg).Username
    /\ OneRowOf(EventOf(Last.msg))

\* the user.created fact of identity u is in the tasks queue or in flight
FactPending(u) ==
    \/ \E k \in DOMAIN queue :
          Decodes(queue[k]) /\ EventOf(queue[k]).UserID = u
    \/ inflight # None /\ Decodes(inflight) /\ EventOf(inflight).UserID = u

C7_PublishFailureTolerated ==
    /\ authResp.publish # "throw"
    /\ authResp.publish = "false" =>
          /\ authResp.status = 201
          /\ authResp.id \in StoreIds

\* the publish call threw on the closed channel, and nothing was enqueued
C7_Witness ==
    /\ authResp.publish = "false"
    /\ authResp.status = 201
    /\ authResp.id \in StoreIds
    /\ channel = "closed"
    /\ published = 0

\* the middleware chain answers or passes on the request in this step
Authorizes == req # None /\ req.step = "auth" /\ req' # req
\* the handler answers the request in this step
Handles == req # None /\ req.step = "handler" /\ req' # req

\* C8: a task-creation request whose identity id is not in the cache is
\* answered 404 "owner not found" and stores nothing; one whose identity id
\* is in the cache reaches the handler, which answers 201 and stores the task,
\* or 400 for its body, or 500 when the INSERT failed, and never "owner not
\* found".
C8_Step ==
    /\ (Authorizes /\ req.token \notin CacheIds) =>
          /\ taskResp'.status = 404
          /\ taskResp'.error = "owner not found"
          /\ req' = None
          /\ tasks' = tasks
    /\ (Authorizes /\ req.token \in CacheIds) =>
          /\ req' # None
          /\ req'.step = "handler"
          /\ taskResp' = taskResp
    /\ Handles =>
          /\ req.token \in CacheIds
          /\ taskResp'.status \in {201, 400, 500}
          /\ taskResp'.error # "owner not found"
          /\ taskResp'.status = 201 =>
                \E t \in tasks' \ tasks : t.user_id = req.token
          /\ taskResp'.status = 400 =>
                taskResp'.error \in {"bind", "Invalid status", "Invalid priority"}
          /\ taskResp'.status = 500 => dbFails' = dbFails + 1

C8_OwnerGating == [][C8_Step]_vars

\* the request was refused while the identity was not cached and succeeded
\* after its fact was applied
C8_Witness ==
    /\ taskResp.status = 201
    /\ taskResp.userID \in notFoundFor
    /\ \E t \in tasks : t.user_id = taskResp.userID

\* C9: every task a step stores has an owner that is in the cache in the
\* state the step starts from.
C9_OwnerCachedAtCreation ==
    [][\A t \in tasks' \ tasks : t.user_id \in CacheIds]_vars

\* a task is stored while another identity of the store is not cached
C9_Witness ==
    /\ \E t \in tasks : t.user_id \in CacheIds
    /\ StoreIds \ CacheIds # {}

\* NewConsumer's locals between the parse of RABBITMQ_MAX_RETRIES and its
\* return
Booting == tasksPc \in {"dial", "declare", "fatal"}

C10_Bounded ==
    /\ Booting =>
          /\ maxRetries >= 1
          /\ attempts <= maxRetries
          /\ val \in {EnvUnset} \cup EnvInvalid => maxRetries = defaultMaxRetries
    /\ tasksPc = "dial" => (attempts = i /\ i < maxRetries)
    /\ tasksPc = "declare" => attempts = i + 1
    /\ tasksPc = "fatal" =>
          /\ attempts = maxRetries
          /\ consumerPc = "off"
          /\ handled = <<>>
          /\ bindings = {}
    /\ tasksPc \in {"main", "dial", "declare", "fatal"} => consumerPc = "off"

\* a dial follows failed dials only, and the fatal error ends the service
C10_Step ==
    /\ attempts' > attempts => (tasksPc = "dial" /\ attempts = i)
    /\ tasksPc = "fatal" => UNCHANGED <<tasksPc, consumerPc, attempts>>
    /\ tasksPc' \in {"listen", "serving"} => tasksPc \in {"start", "listen", "serving"}

\* C10: NewConsumer dials at most maxRetries times, 10 when
\* RABBITMQ_MAX_RETRIES is unset, does not parse or is below 1; it dials no
\* more after a dial succeeded; when every dial failed the service is in its
\* fatal state for good, with no consume loop and no HTTP server.
C10_BoundedRetries == []C10_Bounded /\ [][C10_Step]_vars

C10_Witness ==
    /\ tasksPc = "fatal"
    /\ val \in EnvInvalid
    /\ attempts = defaultMaxRetries

\* NewConsumer has connected: the dial of attempt k succeeded after k - 1
\* failed dials
ConnectedAt(k) == tasksPc = "declare" /\ i = k - 1 /\ attempts = k

C11_Step ==
    (tasksPc = "declare" /\ tasksPc' # tasksPc) =>
        /\ tasksPc' = "start"
        /\ CacheKeys \subseteq bindings'

\* C11: when dial k succeeds after k - 1 failed dials, NewConsumer has made
\* exactly k dials and makes no more; it declares the bindings and returns,
\* the consume loop starts, and every message that reaches the queue is
\* settled by the consumer.
C11_LateConnect ==
    /\ [](tasksPc = "declare" => (attempts = i + 1 /\ attempts <= maxRetries))
    /\ [][C11_Step]_vars
    /\ \A k \in 1..defaultMaxRetries :
          ConnectedAt(k) ~> (consumerPc = "select" /\ CacheKeys \subseteq bindings)
    /\ \A mid \in 1..MaxMsgs :
          InQueue(mid) ~> (~InQueue(mid) /\ ~InFlight(mid))

\* three dials failed and the fourth succeeded
C11_Witness == ConnectedAt(4) /\ maxRetries > 4 /\ brokerUp

\* C12: once consumer.Close() has run on shutdown, no handler is in flight
\* and no delivery was left unsettled by a handler.
C12_ExitAfterHandler ==
    (tasksPc \in {"closing", "exited"} /\ ~connLost) =>
        /\ inflight = None
        /\ \A k \in DOMAIN handled : handled[k].settle # "unsettled"

\* C13: after cancel() the consume loop hands no delivery to handleMessage.
C13_NoHandlingAfterCancel ==
    [][ctxDone => ~(inflight = None /\ inflight' # None)]_vars

\* a delivery is handed to handleMessage in this step
Begins == inflight' # inflight /\ inflight' # None

C14_Step ==
    Begins =>
        /\ consumerPc = "select"
        /\ inflight = None
        /\ Handled => Last.settle \in {"ack", "nack_drop", "nack_requeue"}

\* C14: a delivery is handed to handleMessage only while no other delivery
\* is in the handler, and the delivery handled before it was acknowledged or
\* rejected; a delivery is in the handler exactly while the loop is in
\* handleMessage.
C14_OneAtATime ==
    /\ [][C14_Step]_vars
    /\ [](consumerPc = "handling" => inflight # None)
    /\ [](inflight # None => consumerPc \in {"handling", "killed"})

\* a second delivery is in the handler after the first was acknowledged
C14_Witness ==
    /\ Len(handled) = 1
    /\ Last.settle = "ack"
    /\ consumerPc = "handling"
    /\ inflight.mid # Last.msg.mid

C15_Step ==
    /\ connLost =>
          /\ connLost'
          /\ attempts' = attempts
          /\ tasksPc' \notin {"main", "dial", "declare"}
          /\ ~Begins
    /\ consumerPc = "ended" =>
          /\ consumerPc' = "ended"
          /\ tasks_users' = tasks_users
          /\ handled' = handled

\* a client can send a task-creation request
CanRequest == ENABLED (\E id \in Ids : NewRequest(id))

\* C15: once the consumer's connection has closed after start-up, nothing
\* dials again and no delivery is handed to the handler; the consume loop
\* ends, and from then on the cache does not change, while the serving task
\* API still accepts requests.
C15_NoReconnect ==
    /\ [][C15_Step]_vars
    /\ connLost ~> (consumerPc = "ended")
    /\ []((consumerPc = "ended" /\ tasksPc = "serving" /\ StoreIds # {})
            => CanRequest)

\* the loop has ended with a registered identity's fact left in the queue
C15_Witness ==
    /\ consumerPc = "ended"
    /\ tasksPc = "serving"
    /\ \E u \in StoreIds \ CacheIds : FactPending(u)

\* the tasks of table tbl that identity id owns, and the others
OwnedBy(tbl, id) == {t \in tbl : t.user_id = id}
NotOwnedBy(tbl, id) == {t \in tbl : t.user_id # id}

\* one of the read, list, update, delete and statistics handlers answers
ServesOp == Handles /\ req.route \in IdRoutes \cup ListRoutes

\* the request names a task that another identity owns
AddressesForeignTask ==
    /\ req.route \in IdRoutes
    /\ \E t \in NotOwnedBy(tasks, req.userID) : t.id = req.taskID

\* C16 (as stated): whenever a caller addresses a task of another identity,
\* the answer is not-found.
C16_ForeignTaskNotFound ==
    [][(ServesOp /\ AddressesForeignTask) => taskResp'.status = 404]_vars

C16_Step ==
    ServesOp =>
        /\ req.userID = req.token
        /\ NotOwnedBy(tasks', req.userID) = NotOwnedBy(tasks, req.userID)
        /\ taskResp'.seen \subseteq OwnedBy(tasks', req.userID)
        /\ taskResp'.total <= Cardinality(OwnedBy(tasks, req.userID))
        /\ AddressesForeignTask =>
              \/ taskResp'.status = 404 /\ taskResp'.error = "Task not found"
              \/ /\ taskResp'.status = 400 /\ taskResp'.error = "bind"
                 /\ req.route = "PUT /api/tasks/:id"
              \/ taskResp'.status = 500 /\ dbFails' = dbFails + 1
        /\ (AddressesForeignTask /\ taskResp'.status = 500) =>
              req.route \in {"GET /api/tasks/:id", "DELETE /api/tasks/:id"}
        /\ (req.route = "GET /api/tasks/stats/summary" /\ taskResp'.status = 200) =>
              /\ taskResp'.total = Cardinality(OwnedBy(tasks, req.userID))
              /\ \A g \in taskResp'.byStatus \cup taskResp'.byPriority :
                    g[2] <= Cardinality(OwnedBy(tasks, req.userID))

\* C16 (amended): a read, list, update, delete or statistics request leaves
\* the tasks of every other identity as they are, shows the caller tasks of
\* the caller only and counts the caller's tasks only; when the addressed
\* task belongs to another identity the answer is "Task not found", except
\* that an update whose body does not bind is answered 400 before the lookup
\* and a read or delete whose statement fails is answered 500.
C16_ScopedToCaller == [][C16_Step]_vars

\* the caller addressed a task of another identity, was answered not found,
\* and the task is still there
C16_Witness ==
    /\ taskResp.status = 404
    /\ taskResp.error = "Task not found"
    /\ taskResp.op \in {"PUT /api/tasks/:id", "DELETE /api/tasks/:id"}
    /\ \E t \in tasks : t.id = taskResp.taskID /\ t.user_id # taskResp.userID

C17_Step ==
    /\ (Handles \/ Authorizes) => tasks_users' = tasks_users
    /\ tasks_users' # tasks_users =>
          /\ consumerPc = "handling"
          /\ Len(handled') = Len(handled) + 1
          /\ handled'[Len(handled')].upsert = "ok"
    /\ \A r \in tasks_users : \E r2 \in tasks_users' :
          r2.user_id = r.user_id /\ r2.created_at = r.created_at

\* C17: the cache changes in handleMessage's upsert only, which removes no
\* row; no step of the task API's middleware or handlers changes it.
C17_OnlyConsumerWrites == [][C17_Step]_vars

\* a task was updated and both cache rows are as the consumer wrote them
C17_Witness ==
    /\ taskResp.status = 200
    /\ taskResp.op = "PUT /api/tasks/:id"
    /\ \E t \in taskResp.seen : t \in tasks /\ t.status = "completed"
    /\ \A r \in tasks_users : \E k \in DOMAIN handled :
          /\ handled[k].upsert = "ok"
          /\ EventOf(handled[k].msg).UserID = r.user_id
          /\ r.updated_at = handled[k].at

\* every password a client typed and every hash the store holds
Credentials ==
    LoginPasswords \cup {bcrypt_hash(p) : p \in LoginPasswords}
                   \cup {u.password_hash : u \in users}

EventFields == {"userId", "username", "email", "createdAt", "loginAt"}

\* body names only the identity's id, username, email and a timestamp, and
\* none of its values is a password or a hash
FreeOfCredentials(body) ==
    /\ DOMAIN body \subseteq EventFields
    /\ \A f \in DOMAIN body : body[f] \notin Credentials

\* C18: the message the authority last handed to the broker, and every
\* message of the authority waiting in the queue, is a user.created or a
\* user.login message whose body names only id, username, email and one
\* timestamp and holds no password and no hash.
C18_NoCredentialPublished ==
    /\ sent # None =>
          /\ sent.rk \in {"user.created", "user.login"}
          /\ FreeOfCredentials(sent.body)
          /\ Cardinality(DOMAIN sent.body \cap {"createdAt", "loginAt"}) = 1
    /\ \A k \in DOMAIN queue : FreeOfCredentials(queue[k].body)

\* a login of a registered identity, whose stored row holds the hash of its
\* password, has published user.login
C18_Witness ==
    /\ sent # None
    /\ sent.rk = "user.login"
    /\ authResp.status = 200
    /\ \E u \in users : /\ u.id = sent.body.userId
                        /\ bcrypt_compare("s3cret", u.password_hash)
    /\ \E k \in DOMAIN queue : queue[k].rk = "user.created"

\* the header is "Bearer <token>": the word, one space, one more item
BearerForm(h) == Len(h) = 3 /\ h[1] = W("Bearer") /\ h[2] = SP /\ h[3] # SP

\* tok is a JWT signed with the shared secret and not yet expired at hour t
ValidAt(tok, t) ==
    /\ "payload" \in DOMAIN tok
    /\ tok.key = JWT_SECRET
    /\ t < tok.exp

\* a request with header h at hour t is to be let through
Acceptable(h, t) == BearerForm(h) /\ ValidAt(h[3], t)

\* the messages of the two services, in lower case
LowerCase(msg) ==
    CASE msg = "Authorization header is required" -> "authorization header is required"
      [] msg = "Invalid authorization format. Use: Bearer <token>" ->
             "invalid authorization format. use: bearer <token>"
      [] msg = "Token is required" -> "token is required"
      [] msg = "Invalid token" -> "invalid token"
      [] OTHER -> msg

MentionsAuthorization(msg) ==
    LowerCase(msg) \in {"authorization header is required",
                        "authorization header required",
                        "invalid authorization format. use: bearer <token>"}

\* the authority's last answer was to a verification
Verified == "answer" \in DOMAIN authResp

C19_VerifyRejects ==
    (Verified /\ ~Acceptable(authResp.header, authResp.at)) =>
        /\ authResp.answer.status = 401
        /\ authResp.header = <<>> => MentionsAuthorization(authResp.answer.error)
        /\ BearerForm(authResp.header) =>
              LowerCase(authResp.answer.error) = "invalid token"

C19_Step ==
    /\ (Authorizes /\ ~Acceptable(req.header, req.at)) =>
          /\ req' = None
          /\ taskResp'.status = 401
          /\ req.header = <<>> => MentionsAuthorization(taskResp'.error)
          /\ BearerForm(req.header) => LowerCase(taskResp'.error) = "invalid token"
          /\ UNCHANGED <<tasks, tasks_users, taskSeq, notFoundFor, users, queue, sent>>
    /\ (authResp' # authResp /\ "answer" \in DOMAIN authResp') =>
          UNCHANGED <<tasks, tasks_users, taskSeq, notFoundFor, users, queue, sent>>
    /\ Handles => Acceptable(req.header, req.at)

\* C19: a request whose Authorization header is missing or is not
\* "Bearer <token>", or whose token was signed with another key or has
\* expired, is answered 401 by the authority's verify endpoint and by the task
\* API's middleware, reaches no handler and changes neither tasks nor
\* identities; the answer to a missing header mentions authorization and the
\* answer to a bad token is "invalid token".
C19_BadTokenRejected == []C19_VerifyRejects /\ [][C19_Step]_vars

\* the signed token, presented at its hour of expiry, was refused by both
\* services
C19_Witness ==
    /\ Verified
    /\ authResp.header = <<W("Bearer"), SP, SignedToken>>
    /\ authResp.at = JWT_EXPIRES_IN
    /\ authResp.answer.status = 401
    /\ taskResp.status = 401
    /\ taskResp.error = "invalid token"
    /\ tasks_users # {}

C20_Step ==
    (users' # users \/ tasks_users' # tasks_users) =>
        \A h \in HeaderInputs, t \in Hours :
            /\ VerifyAnswer(h, t)' = VerifyAnswer(h, t)
            /\ TokenValidator(h, JWT_SECRET, t)' = TokenValidator(h, JWT_SECRET, t)

\* C20: the answer to a header at an hour is the same in every state of the
\* Identity Store and the Identity Cache: no step that changes the store or
\* the cache changes it, and the answer the authority gave earlier is the
\* answer it would give now.
C20_Stateless ==
    /\ [](Verified =>
             authResp.answer = VerifyAnswer(authResp.header, authResp.at))
    /\ [][C20_Step]_vars

\* a token was found valid although the store and the cache hold another
\* identity and not the token's
C20_Witness ==
    /\ Verified
    /\ authResp.answer.status = 200
    /\ authResp.answer.user.userId \notin StoreIds \cup CacheIds
    /\ StoreIds # {}
    /\ CacheIds # {}

\* the broker holds the consumer's exchange and queue and both bindings
TopologyDeclared ==
    /\ Exchange(EXCHANGE_NAME) \in declared
    /\ DurableQueue("tasks-service-queue") \in declared
    /\ CacheKeys \subseteq bindings

C21_Step ==
    /\ (tasksPc = "declare" /\ tasksPc' # tasksPc /\ TopologyDeclared) =>
          /\ tasksPc' = "start"
          /\ declared' = declared
          /\ bindings' = bindings
          /\ queue' = queue
    /\ (tasksPc = "declare" /\ tasksPc' = "start") => TopologyDeclared'

\* C21: when NewConsumer declares exchange, queue and bindings that the
\* broker already holds, every declaration succeeds and the broker's
\* exchanges, queues, bindings and waiting messages are as before; after any
\* run of the declarations the broker holds the topology.
C21_DeclareIdempotent == [][C21_Step]_vars

\* a later run has declared again while a message was waiting
C21_Witness ==
    /\ restarts > 0
    /\ tasksPc = "start"
    /\ TopologyDeclared
    /\ queue # <<>>

\* no consume loop is running
NoConsumer == consumerPc \notin {"select", "handling"}

\* the fact mid was applied to the cache
Applied(mid) ==
    \E k \in DOMAIN handled :
        /\ handled[k].msg.mid = mid
        /\ handled[k].upsert = "ok"
        /\ EventOf(handled[k].msg).UserID \in CacheIds

C22_Step ==
    \A mid \in 1..MaxMsgs :
        (NoConsumer /\ InQueue(mid)) => InQueue(mid)'

\* C22: a fact in the queue stays there while no consume loop runs, through
\* the end of the process and the next start, and a fact that waits in the
\* queue while no consume loop runs is applied to the cache once a consumer
\* runs again.
C22_DecoupledLifetimes ==
    /\ [][C22_Step]_vars
    /\ \A mid \in 1..MaxMsgs : (NoConsumer /\ InQueue(mid)) ~> Applied(mid)

\* the fact of a registered identity was handled for the first time, and
\* applied, by a run that started after the first run had ended
C22_Witness ==
    /\ Len(handled) = 1
    /\ handled[1].run > 0
    /\ Applied(1)
    /\ authResp.status = 201
    /\ consumerPc = "select"

\* the running tasks process was started with no variable set
Unconfigured == tasksPc # "main" /\ environ = NoEnviron

\* C23: a tasks process started with no variable set dials a URL at which
\* the broker, when it is up, answers; it declares the exchange the publisher
\* publishes to and the queue tasks-service-queue, and Start consumes from the
\* queue NewConsumer declared.
C23_RunsOnDefaults ==
    Unconfigured =>
        /\ amqpDial(DialURL(environ), TRUE) = "ok"
        /\ ExchangeName(environ) = EXCHANGE_NAME
        /\ QueueName(environ) = "tasks-service-queue"
        /\ ConsumedQueue(StartQueueName(environ), QueueName(environ))
               = QueueName(environ)

\* the json keys of models.UserEvent
UserEventFields == {"eventType", "userId", "username", "email", "timestamp"}

\* C24: the identity fact the authority last handed to the broker has the
\* fields eventType, userId, username, email and timestamp in its body, and
\* its eventType is its routing key.
C24_FactFields ==
    (sent # None /\ sent.rk \in CacheKeys) =>
        /\ UserEventFields \subseteq DOMAIN sent.body
        /\ sent.body.eventType = sent.rk

\* the row is what one applied fact says: its username and its email
FromOneFact(r) ==
    \E k \in DOMAIN handled :
        /\ handled[k].upsert = "ok"
        /\ EventOf(handled[k].msg).UserID = r.user_id
        /\ EventOf(handled[k].msg).Username = r.username
        /\ EventOf(handled[k].msg).Email = r.email

\* C25: whatever two instances of the consumer have applied, and in whatever
\* order, the cache holds one row for each cached id, and the row's username
\* and email are those of one fact that was applied.
C25_OneRowPerIdentity ==
    \A r \in tasks_users :
        /\ RowsFor(r.user_id) = {r}
        /\ FromOneFact(r)

\* the second instance applied a fact while the first one was holding
\* another fact about the same identity, and both have been applied since
C25_Witness ==
    /\ Len(handled) = 2
    /\ handled[1].by = "peer" /\ handled[1].upsert = "ok"
    /\ handled[2].by = "main" /\ handled[2].upsert = "ok"
    /\ handled[2].msg.mid < handled[1].msg.mid
    /\ EventOf(handled[1].msg).UserID = EventOf(handled[2].msg).UserID
    /\ EventOf(handled[1].msg).Username # EventOf(handled[2].msg).Username
    /\ Cardinality(tasks_users) = 1

\* C26: every delivery that handleMessage has returned from was settled by it
\* in one of the three ways: acknowledged, rejected with requeue or rejected
\* without requeue; none was left unsettled.
C26_SettledOnce ==
    \A k \in DOMAIN handled :
        handled[k].settle \in {"ack", "nack_requeue", "nack_drop"}

\* a request to the task API ends in this step with an error response
TaskRequestFails ==
    /\ req # None
    /\ req' = None
    /\ taskResp' # taskResp
    /\ taskResp'.status >= 400

\* a registration ends in this step with an error response
RegistrationFails == authResp' # authResp /\ authResp'.status >= 400

\* C27: a request that ends with an error response (a failing statement, a
\* row that is not there, a panic in the handler) leaves its process serving
\* and free to take the next request: the tasks service after a failed task
\* request, the authority after a failed registration.
C27_Step ==
    /\ TaskRequestFails => (tasksPc' = "serving" /\ tasksPc = "serving")
    /\ RegistrationFails => (authState' = "serving" /\ authState = "serving")

C27_ErrorsStayInRequest == [][C27_Step]_vars

\* the statistics handler panicked on a failing database, was answered 500,
\* and the service took the next request
C27_Witness ==
    /\ taskResp.status = 500 /\ taskResp.error = "panic"
    /\ dbFails > 0
    /\ req # None
    /\ tasksPc = "serving"

\* no two identity rows share a username or an email
UniqueIdentities ==
    \A u, v \in users : (u.username = v.username \/ u.email = v.email) => u = v

\* a user.created fact leaves the register handler in this step
PublishesCreated == sent' # sent /\ sent'.rk = "user.created"

\* a registration is answered 409 or 500 in this step
RegistrationRefused ==
    /\ authResp' # authResp
    /\ DOMAIN authResp' = {"status", "id", "publish"}
    /\ authResp'.status \in {409, 500}

\* C28: a user.created fact is published only in a step that leaves its
\* identity's row in the store, with the id, username and email the fact
\* carries; a registration answered 409 or 500 adds no row and publishes
\* nothing; and no two rows of the store share a username or an email.
C28_Step ==
    /\ PublishesCreated =>
          \E u \in users' :
              /\ u.id = sent'.body.userId
              /\ u.username = sent'.body.username
              /\ u.email = sent'.body.email
              /\ authResp'.status = 201
    /\ RegistrationRefused =>
          /\ users' = users
          /\ sent' = sent
          /\ published' = published
          /\ queue' = queue

C28_PublishAfterCommit == []UniqueIdentities /\ [][C28_Step]_vars

\* one identity registered and its fact was published, and a registration
\* that reused its username or email was refused after that
C28_Witness ==
    /\ authResp.status = 409
    /\ Cardinality(users) = 1
    /\ sent # None
    /\ sent.rk = "user.created"
    /\ sent.body.userId \in StoreIds

\* every stored task has one of the four statuses and one of the four
\* priorities
ValidStored ==
    \A t \in tasks :
        /\ t.status \in {"pending", "in_progress", "completed", "cancelled"}
        /\ t.priority \in {"low", "medium", "high", "urgent"}

\* a request reaches the handler of route and is answered in this step
Answers(route) ==
    req # None /\ req.step = "handler" /\ req.route = route /\ req' = None

\* C29: every stored task has a status among pending, in_progress, completed,
\* cancelled and a priority among low, medium, high, urgent, after any
\* sequence of creations and updates; and a creation that stores a task
\* stores it with the status and priority of its body, pending where the body
\* has no status and medium where it has no priority.
C29_Step ==
    (Answers("POST /api/tasks") /\ tasks' # tasks) =>
        \A body \in Bodies :
            CreateTask(body, FALSE) =>
                \E t \in tasks' \ tasks :
                    /\ tasks' = tasks \cup {t}
                    /\ t.status = IF body.status = Nil THEN "pending" ELSE body.status
                    /\ t.priority = IF body.priority = Nil THEN "medium"
                                    ELSE body.priority

C29_ValidStatusAndPriority == []ValidStored /\ [][C29_Step]_vars

\* a task created with neither field was updated in another field only and
\* is still pending and medium
C29_Witness ==
    /\ taskResp.status = 200
    /\ taskResp.op = "PUT /api/tasks/:id"
    /\ \E t \in taskResp.seen :
          t \in tasks /\ t.status = "pending" /\ t.priority = "medium"

\* C30: an update answered 200 leaves the task's row with the status and the
\* priority of the body where the body has them and the stored ones where it
\* has not, with updated_at set to the time of the request, and with its id,
\* its owner and its creation time as they were; every other row of the tasks
\* table and the whole cache are unchanged.
C30_Step ==
    (Answers("PUT /api/tasks/:id") /\ taskResp'.status = 200) =>
        \A body \in UpdateBodies :
            UpdateTask(body, "none") =>
                \E r \in tasks : \E r2 \in tasks' :
                    /\ r.id = req.taskID /\ r.user_id = req.userID
                    /\ r2.id = r.id
                    /\ r2.user_id = r.user_id
                    /\ r2.created_at = r.created_at
                    /\ r2.status = IF body.status # Nil THEN body.status ELSE r.status
                    /\ r2.priority = IF body.priority # Nil THEN body.priority
                                     ELSE r.priority
                    /\ r2.updated_at = now
                    /\ DOMAIN r2 = DOMAIN r
                    /\ tasks' \ {r2} = tasks \ {r}
                    /\ tasks_users' = tasks_users
                    /\ taskSeq' = taskSeq

C30_UpdateFrame == [][C30_Step]_vars

\* an update that named the status only: the task is completed and keeps the
\* priority it was created with
C30_Witness ==
    /\ taskResp.status = 200
    /\ taskResp.op = "PUT /api/tasks/:id"
    /\ \E t \in taskResp.seen :
          t \in tasks /\ t.status = "completed" /\ t.priority = "medium"

\* the reasons for which UpdateTask rejects a request
UpdateRejections ==
    {"Invalid task ID", "Task not found", "Invalid status", "Invalid priority",
     "No fields to update"}

\* C31: an update that is answered with one of the rejections (invalid task
\* id, task not found for the caller, invalid status, invalid priority, no
\* fields) leaves the tasks table as it was, whatever other fields its body
\* carries.
C31_Step ==
    (Answers("PUT /api/tasks/:id") /\ taskResp'.error \in UpdateRejections) =>
        /\ taskResp'.status \in {400, 404}
        /\ tasks' = tasks
        /\ tasks_users' = tasks_users

C31_RejectedUpdateNoChange == [][C31_Step]_vars

\* an update of the caller's own task was rejected for its priority and the
\* task is as it was created
C31_Witness ==
    /\ taskResp.status = 400
    /\ taskResp.error = "Invalid priority"
    /\ "op" \in DOMAIN taskResp
    /\ taskResp.op = "PUT /api/tasks/:id"
    /\ \E t \in tasks :
          /\ t.id = taskResp.taskID /\ t.user_id = taskResp.userID
          /\ t.status = "pending" /\ t.updated_at = t.created_at

UserKeys == {"user.created", "user.updated", "user.login"}

\* C33: once the tasks consumer has bound its queue, every message the
\* authority publishes with a routing key that starts with user. is put into
\* the consumer's queue.
C33_Step ==
    (sent' # sent /\ sent'.rk \in UserKeys /\ CacheKeys \subseteq bindings) =>
        /\ Len(queue') = Len(queue) + 1
        /\ queue'[Len(queue')].rk = sent'.rk
        /\ queue'[Len(queue')].body = sent'.body

C33_UserEventsDelivered == [][C33_Step]_vars

\* the caller's task that the request names, if there is one
Addressed == {t \in tasks : t.id = req.taskID /\ t.user_id = req.userID}

\* a delete with a well-formed task id is answered in this step
AnswersDelete ==
    /\ Answers("DELETE /api/tasks/:id")
    /\ req.userID # ""
    /\ req.taskID # BadTaskId

\* a list or get request is answered in this step
AnswersRead == Answers("GET /api/tasks") \/ Answers("GET /api/tasks/:id")

\* C34 (as stated): a delete of a task the caller owns is answered 200 and
\* removes exactly that task; a delete of any other id is answered not-found
\* and removes nothing.
C34_DeleteOrNotFound ==
    [][AnswersDelete =>
          IF Addressed # {}
          THEN taskResp'.status = 200 /\ tasks' = tasks \ Addressed
          ELSE taskResp'.status = 404 /\ tasks' = tasks]_vars

C34_Step ==
    /\ AnswersDelete =>
          /\ taskResp'.status \in {200, 404, 500}
          /\ taskResp'.status = 200 =>
                /\ Cardinality(Addressed) = 1
                /\ tasks' = tasks \ Addressed
          /\ taskResp'.status = 404 => (Addressed = {} /\ tasks' = tasks)
          /\ taskResp'.status = 500 =>
                (taskResp'.error = "Failed to delete task" /\ tasks' = tasks)
          /\ tasks_users' = tasks_users
    /\ AnswersRead => (tasks' = tasks /\ taskResp'.seen \subseteq tasks)

\* C34 amended: a delete whose statement runs removes exactly the caller's
\* task of that id and answers 200, or, when the caller has no task of that
\* id, removes nothing and answers 404; a delete whose statement fails
\* removes nothing and answers 500; list and get show rows of the table only,
\* so a deleted task is not shown again and a second delete of its id is
\* answered 404.
C34_DeleteExactlyOne == [][C34_Step]_vars

\* a task was created and deleted, and a delete of its id was answered 404
C34_Witness ==
    /\ taskResp.status = 404
    /\ "op" \in DOMAIN taskResp
    /\ taskResp.op = "DELETE /api/tasks/:id"
    /\ taskResp.taskID \in 1..taskSeq
    /\ \A t \in tasks : t.id # taskResp.taskID

\* the delivery decodes and its routing key is none of the cached ones
OtherKey(m) == Decodes(m) /\ m.rk \notin CacheKeys

\* C35: a delivery that decodes and whose routing key is neither user.created
\* nor user.updated is acknowledged without a statement against the cache,
\* and the step that handles it leaves the cache as it was.
C35_Step ==
    (consumerPc = "handling" /\ OtherKey(inflight) /\ handled' # handled) =>
        /\ tasks_users' = tasks_users
        /\ handled'[Len(handled')].settle = "ack"
        /\ handled'[Len(handled')].upsert = "none"
        /\ \A k \in DOMAIN queue' : queue'[k].mid # inflight.mid

C35_OtherKeysAcked ==
    /\ [](\A k \in DOMAIN handled :
             OtherKey(handled[k].msg) =>
                 (handled[k].settle = "ack" /\ handled[k].upsert = "none"))
    /\ [][C35_Step]_vars

\* a fact was cached, then a message with another key was handled
C35_Witness ==
    /\ Len(handled) = 2
    /\ handled[1].upsert = "ok"
    /\ handled[2].msg.rk = "tasks-service-queue"
    /\ Decodes(handled[2].msg)
    /\ handled[2].settle = "ack"
    /\ Cardinality(tasks_users) = 1

\* C36: every row of the cache has the id of a message that was published
\* with a userId, and handling a payload that decodes but has no userId adds
\* no row.
C36_IdsFromFacts ==
    /\ \A r \in tasks_users :
          \E k \in DOMAIN handled :
              /\ "userId" \in DOMAIN handled[k].msg.body
              /\ handled[k].msg.body.userId = r.user_id
    /\ \A k \in DOMAIN handled :
          (Decodes(handled[k].msg) /\ "userId" \notin DOMAIN handled[k].msg.body) =>
              handled[k].upsert = "none"

\* the lookup of the task API's middleware finds identity id in cache
Found(cache, id) == AuthMiddlewareOutcome(cache, id) # "owner_not_found"

\* C37: no step removes an id from the cache, whether the consumer or a
\* handler of the task API takes it, so an id the middleware's lookup finds
\* is found by the lookup in every later state.
C37_Step ==
    /\ CacheIds \subseteq CacheIds'
    /\ \A id \in Ids : Found(tasks_users, id) => Found(tasks_users', id)

C37_CacheOnlyGrows == [][C37_Step]_vars

\* a task was created and deleted, and the lookup has let a later request
\* through while both identities are cached
C37_Witness ==
    /\ taskSeq > 0
    /\ tasks = {}
    /\ CacheIds = Ids
    /\ req # None
    /\ req.step = "handler"
    /\ Found(tasks_users, req.userID)

\* the publisher has no open channel while the authority serves
PublisherDown == authState = "serving" /\ channel # "open"

\* C38: while the publisher has no open channel, exactly one run of
\* connectRabbitMQ is scheduled, and never more than one; so from any state
\* in which the broker is reachable and the publisher is down, the channel is
\* opened again and publishEvent returns true.
C38_PublisherReconnects ==
    /\ [](reconnects <= 1)
    /\ [](PublisherDown => reconnects = 1)
    /\ (brokerUp /\ PublisherDown) ~> (publishEvent(channel) = "true")

\* a registration found no open channel, and the channel has been opened by a
\* scheduled run of connectRabbitMQ since
C38_Witness ==
    /\ authResp.status = 201
    /\ authResp.publish = "false"
    /\ channel = "open"
    /\ reconnects = 0
    /\ brokerUp

\* NewConsumer returns an error in this step
NewConsumerErrs == tasksPc \in {"dial", "declare"} /\ tasksPc' = "fatal"

\* C39: when NewConsumer returns an error, whichever of its calls failed,
\* nothing it opened at the broker is left open; the process is then in its
\* fatal state, where no consume loop runs, no delivery is handled and
\* nothing is opened.
C39_Step ==
    /\ NewConsumerErrs => (opened' = {} /\ consumerPc' = "off")
    /\ tasksPc = "fatal" =>
          /\ tasksPc' \in {"fatal", "main"}
          /\ consumerPc' = consumerPc
          /\ handled' = handled
          /\ opened' = opened

C39_ErrorClosesAll ==
    /\ [](tasksPc \in {"start", "listen", "serving"} /\ ~connLost
             => opened = {"conn", "channel"})
    /\ [](tasksPc = "declare" => opened = {"conn"})
    /\ [][C39_Step]_vars

\* the second QueueBind failed: the first binding stands, nothing is open and
\* no consumer runs
C39_Witness ==
    /\ tasksPc = "fatal"
    /\ bindings = {"user.created"}
    /\ opened = {}
    /\ consumerPc = "off"

=============================================================================
